---- MODULE Spec2Model ----
(***************************************************************************)
(* Storage engine of dromos: the relational repository (nodes, edges), the *)
(* in-memory RomGraph (petgraph StableGraph plus two indexes), the diffs/  *)
(* directory, and the StorageManager operations that keep them together.   *)
(*                                                                         *)
(* Abstractions.  A byte sequence is a sequence of small naturals.  The    *)
(* 16-byte iNES header is HeaderLen symbols <<magic, flags6>>, the 512     *)
(* byte trainer is TrainerLen symbols.  A SHA-256 digest is HashLen hex    *)
(* digits computed from the hashed bytes; the bodies of the model have     *)
(* pairwise distinct digests and distinct PrefixLen-digit prefixes (the    *)
(* digest is treated as collision free).  A bsdiff patch is the pair       *)
(* (old, new) it was created from.  Node and edge indices of the           *)
(* StableGraph are 1-based here.                                           *)
(***************************************************************************)
EXTENDS Integers, Sequences, FiniteSets, TLC

VARIABLES
    nodes,          \* repository: rows of table nodes
    edges,          \* repository: rows of table edges
    gnodes,         \* graph: node slots of the StableGraph (Vacant or RomNode)
    gfree,          \* graph: free list of vacant node slots, head first
    gedges,         \* graph: edges in insertion order
    hash_to_node,   \* graph index sha256 -> NodeIndex
    db_id_to_node,  \* graph index db id -> NodeIndex
    diffs,          \* diffs/ directory: file name -> patch bytes
    db_exists,      \* the database file exists
    data_revision,  \* dromos_meta: the stored data_revision, NoRevision when unreadable
    nodes_table,    \* sqlite_master lists a table named nodes
    output,         \* the folder export writes to: index.json and diffs/
    running,        \* FALSE after a panic aborted the process
    ops,            \* number of calls so far that changed the store
    last            \* what the last call was and what it returned

vars == <<nodes, edges, gnodes, gfree, gedges, hash_to_node, db_id_to_node,
          diffs, db_exists, data_revision, nodes_table, output, running, ops, last>>

store == <<nodes, edges, gnodes, gfree, gedges, hash_to_node, db_id_to_node, diffs>>

database == <<db_exists, data_revision, nodes_table>>

----------------------------------------------------------------------------
(* Generic helpers *)

\* Option::None of a text field, and of a byte sequence
None == "none"
NoBytes == <<>>

\* a vacant slot of the StableGraph
Vacant == [vacant |-> TRUE]

RECURSIVE SumSeq(_)
SumSeq(s) == IF s = <<>> THEN 0 ELSE Head(s) + SumSeq(Tail(s))

MaxOf(S) == IF S = {} THEN 0 ELSE CHOOSE m \in S : \A x \in S : x <= m

\* The elements of a set of records, ascending by their id field (ORDER BY id).
RECURSIVE SortById(_)
SortById(S) ==
    IF S = {} THEN <<>>
    ELSE LET r == CHOOSE x \in S : \A y \in S : x.id <= y.id
         IN <<r>> \o SortById(S \ {r})

RECURSIVE Reverse(_)
Reverse(s) == IF s = <<>> THEN <<>> ELSE Reverse(Tail(s)) \o <<Head(s)>>

\* f with key k bound to v (HashMap::insert)
MapPut(f, k, v) == [x \in (DOMAIN f) \cup {k} |-> IF x = k THEN v ELSE f[x]]

\* f without key k (HashMap::remove)
MapDel(f, k) == [x \in (DOMAIN f) \ {k} |-> f[x]]

EmptyMap == [x \in {} |-> 0]

\* F of the value of v, with v computed once
With(v, F(_)) == CHOOSE y \in {F(x) : x \in {v}} : TRUE

----------------------------------------------------------------------------
(* ROM files, headers and hashing *)

HeaderLen == 2
TrainerLen == 1
HashLen == 3
PrefixLen == 2

\* b"NES\x1a", as one symbol
NesMagic == 78

\* hash_bytes: a digest of HashLen hex digits computed from the bytes
hash_bytes(data) ==
    <<SumSeq(data) % 16, Len(data) % 16, (3 * SumSeq(data) + Len(data)) % 16>>

\* format_hash: the digest as lowercase hex text
format_hash(h) == [i \in 1..HashLen |-> h[i]]

\* parse_hash: None unless exactly HashLen hex digits
parse_hash(s) ==
    IF Len(s) = HashLen /\ \A i \in 1..Len(s) : s[i] \in 0..15 THEN [i \in 1..HashLen |-> s[i]]
    ELSE NoBytes

\* &format_hash(..)[..16]
HashPrefix(h) == SubSeq(format_hash(h), 1, PrefixLen)

\* the file name with source and target swapped
DiffFilenameSwapped(hs, ht) == <<HashPrefix(ht), HashPrefix(hs)>>

\* format!("{}_{}.bsdiff", ..)
DiffFilename(hs, ht) == <<HashPrefix(hs), HashPrefix(ht)>>

\* a detect_rom_type that takes every file for a NES file
detect_rom_type_any(file) == "NES"

\* detect_rom_type: the extension, lowercased, must be "nes"
ToLower(ext) == IF ext \in {"nes", "NES", "Nes"} THEN "nes" ELSE ext
detect_rom_type(file) == IF ToLower(file.ext) = "nes" THEN "NES" ELSE None

\* parse_nes_header_bytes: None on a bad magic; the trainer flag is bit 2 of flags6
parse_nes_header_bytes(hdr) ==
    IF hdr[1] # NesMagic THEN [valid |-> FALSE]
    ELSE [valid |-> TRUE,
          has_trainer |-> ((hdr[2] \div 4) % 2) = 1,
          vertical    |-> (hdr[2] % 2) = 1,
          has_battery |-> ((hdr[2] \div 2) % 2) = 1]

\* number of bytes in front of the body: header, then the trainer when flagged
BodyOffset(header) == HeaderLen + (IF header.has_trainer THEN TrainerLen ELSE 0)

\* a hash_rom_file that hashes everything after the header, trainer included
hash_rom_file_with_trainer(file) ==
    IF detect_rom_type(file) = None
    THEN [ok |-> FALSE, err |-> "UnsupportedRomType"]
    ELSE IF ~parse_nes_header_bytes(SubSeq(file.data, 1, HeaderLen)).valid
    THEN [ok |-> FALSE, err |-> "InvalidNesFile"]
    ELSE [ok |-> TRUE,
          sha256 |-> hash_bytes(SubSeq(file.data, HeaderLen + 1, Len(file.data))),
          filename |-> file.name,
          source_file_header |-> SubSeq(file.data, 1, HeaderLen)]

\* hash_rom_file: Ok(RomMetadata) or Err
hash_rom_file(file) ==
    IF detect_rom_type(file) = None
    THEN [ok |-> FALSE, err |-> "UnsupportedRomType"]
    ELSE LET header_bytes == SubSeq(file.data, 1, HeaderLen)
             header == parse_nes_header_bytes(header_bytes)
         IN IF ~header.valid
            THEN [ok |-> FALSE, err |-> "InvalidNesFile"]
            ELSE [ok |-> TRUE,
                  sha256 |-> hash_bytes(SubSeq(file.data, BodyOffset(header) + 1, Len(file.data))),
                  filename |-> file.name,
                  source_file_header |-> header_bytes]

\* read_rom_bytes: Ok(body bytes) or Err; a file of unknown type is read whole
read_rom_bytes(file) ==
    IF detect_rom_type(file) = None
    THEN [ok |-> TRUE, bytes |-> file.data]
    ELSE LET header == parse_nes_header_bytes(SubSeq(file.data, 1, HeaderLen))
         IN IF ~header.valid
            THEN [ok |-> FALSE, err |-> "InvalidNesFile"]
            ELSE [ok |-> TRUE,
                  bytes |-> SubSeq(file.data, BodyOffset(header) + 1, Len(file.data))]

\* reconstruct_nes_file_raw (called by cmd_build, its body is not among the
\* sources): the stored raw header followed by the body
reconstruct_nes_file_raw(raw_header, rom_bytes) == raw_header \o rom_bytes

----------------------------------------------------------------------------
(* Inputs *)

\* The ROM bodies the environment has files for.
Bodies == {<<1>>, <<2, 2>>, <<3, 3, 3>>}

\* A plain file of body b, and a second file of the same body with another
\* name, other header flags and a trainer.
FileNames == <<"rom1", "rom2", "rom3", "rom4">>
PlainFile(b) == [name |-> FileNames[Len(b)], ext |-> "nes",
                 data |-> <<NesMagic, 0>> \o b]
TrainerFile(b) == [name |-> "alt", ext |-> "NES",
                   data |-> <<NesMagic, 5, 9>> \o b]
BadExtFile(b) == [name |-> FileNames[Len(b)], ext |-> "bin",
                  data |-> <<NesMagic, 0>> \o b]
BadMagicFile(b) == [name |-> "bad", ext |-> "nes",
                    data |-> <<NesMagic - 1, 0>> \o b]

ValidFiles == {PlainFile(b) : b \in Bodies} \cup {TrainerFile(<<1>>)}
InvalidFiles == {BadExtFile(<<1>>), BadMagicFile(<<1>>)}
RomFiles == ValidFiles \cup InvalidFiles

Hashes == {hash_bytes(b) : b \in Bodies}

\* User metadata (NodeMetadata)
MetaA == [title |-> "Alpha", source_url |-> None, version |-> None,
          release_date |-> None, tags |-> <<>>, description |-> None]
MetaB == [title |-> "Alfa", source_url |-> "url", version |-> "1.1",
          release_date |-> "2024-01-15", tags |-> <<"hack">>, description |-> "d"]

\* the metadata the user enters for a file: the second file of body <<1>>
\* comes with other metadata than the first
MetaOf(file) == IF file.name = "alt" THEN MetaB ELSE MetaA

----------------------------------------------------------------------------
(* Diff codec *)

\* bsdiff::diff(old, new): the patch
BsdiffPatch(old, new) == [old |-> old, new |-> new]

\* patch.len(): one 24-byte control record plus the diff/extra bytes
PatchLen(p) == 24 + Len(p.new) + (IF Len(p.new) > Len(p.old) THEN Len(p.new) - Len(p.old) ELSE 0)

\* apply_diff: Io error when the file is missing; a patch applied to the
\* bytes it was made from yields the new bytes, applied to other bytes it fails
apply_diff(old, dir, name) ==
    IF name \notin DOMAIN dir THEN [ok |-> FALSE, err |-> "Io"]
    ELSE IF dir[name].old = old THEN [ok |-> TRUE, bytes |-> dir[name].new]
    ELSE [ok |-> FALSE, err |-> "DiffApplication"]

----------------------------------------------------------------------------
(* Repository *)

\* Tag serialization: an empty list is stored as NULL, a NULL reads as empty
TagsToColumn(tags) == IF tags = <<>> THEN <<"null">> ELSE <<"json">> \o tags
TagsFromColumn(col) == IF Head(col) = "null" THEN <<>> ELSE Tail(col)

\* The six user fields of a row, as NodeMetadata (map_row_to_node_row)
RowMetadata(row) ==
    [title |-> row.title, source_url |-> row.source_url, version |-> row.version,
     release_date |-> row.release_date, tags |-> TagsFromColumn(row.tags),
     description |-> row.description]

\* rowid of a newly inserted row: one more than the largest in the table
NewRowId(rows) == MaxOf({r.id : r \in rows}) + 1

\* Repository::get_node_by_hash: the rows with that sha256 (at most one)
get_node_by_hash(rows, sha256) == {r \in rows : r.sha256 = sha256}

\* The source_file_header column of a new row: the raw header bytes of the
\* RomMetadata (the column is read by cmd_build and by the export; the INSERT
\* that fills it is not among the sources, the schema has it as a nullable blob)
StoredHeader(metadata) == metadata.source_file_header

\* The row INSERT INTO nodes writes
NewNodeRow(rows, metadata, node_metadata) ==
    [id |-> NewRowId(rows), sha256 |-> metadata.sha256, filename |-> metadata.filename,
     source_file_header |-> StoredHeader(metadata),
     title |-> node_metadata.title, source_url |-> node_metadata.source_url,
     version |-> node_metadata.version, release_date |-> node_metadata.release_date,
     tags |-> TagsToColumn(node_metadata.tags), description |-> node_metadata.description]

\* insert_node without the lookup of the hash
insert_node_unchecked(rows, metadata, node_metadata) ==
    LET row == NewNodeRow(rows, metadata, node_metadata)
    IN [ok |-> TRUE, err |-> "", rows |-> rows \cup {row}, id |-> row.id]

\* Repository::insert_node: RomAlreadyExists when the hash has a row
insert_node(rows, metadata, node_metadata) ==
    IF get_node_by_hash(rows, metadata.sha256) # {}
    THEN [ok |-> FALSE, err |-> "RomAlreadyExists", rows |-> rows, id |-> 0]
    ELSE LET row == NewNodeRow(rows, metadata, node_metadata)
         IN [ok |-> TRUE, err |-> "", rows |-> rows \cup {row}, id |-> row.id]

\* an EXISTS query that finds nothing
EdgeExistsNever(erows, source_id, target_id) == FALSE

\* SELECT EXISTS(.. WHERE source_id = ?1 AND target_id = ?2)
EdgeExists(erows, source_id, target_id) ==
    \E e \in erows : e.source_id = source_id /\ e.target_id = target_id

\* an insert_edge that writes the new patch file into the row of the pair
insert_edge_replacing(erows, source_id, target_id, diff_path, diff_size) ==
    IF EdgeExists(erows, source_id, target_id)
    THEN [ok |-> FALSE, err |-> "DiffAlreadyExists",
          rows |-> {IF e.source_id = source_id /\ e.target_id = target_id
                    THEN [e EXCEPT !.diff_path = diff_path, !.diff_size = diff_size]
                    ELSE e : e \in erows},
          id |-> 0]
    ELSE [ok |-> TRUE, err |-> "", id |-> NewRowId(erows),
          rows |-> erows \cup {[id |-> NewRowId(erows), source_id |-> source_id,
                                target_id |-> target_id, diff_path |-> diff_path,
                                diff_size |-> diff_size]}]

\* Repository::insert_edge: DiffAlreadyExists when the ordered pair has a row
insert_edge(erows, source_id, target_id, diff_path, diff_size) ==
    IF EdgeExists(erows, source_id, target_id)
    THEN [ok |-> FALSE, err |-> "DiffAlreadyExists", rows |-> erows, id |-> 0]
    ELSE LET row == [id |-> NewRowId(erows), source_id |-> source_id,
                     target_id |-> target_id, diff_path |-> diff_path,
                     diff_size |-> diff_size]
         IN [ok |-> TRUE, err |-> "", rows |-> erows \cup {row}, id |-> row.id]

\* Repository::get_edges_for_node: rows with the node as source or target
get_edges_for_node(erows, node_id) ==
    {e \in erows : e.source_id = node_id \/ e.target_id = node_id}

\* Repository::delete_node, the edges part and the node part
delete_node_edges(erows, node_id) == erows \ get_edges_for_node(erows, node_id)
delete_node_row(rows, node_id) == {r \in rows : r.id # node_id}

\* an UPDATE without its WHERE clause
update_node_metadata_every_row(rows, node_id, m) ==
    {[r EXCEPT !.title = m.title, !.source_url = m.source_url,
               !.version = m.version, !.release_date = m.release_date,
               !.tags = TagsToColumn(m.tags), !.description = m.description]
     : r \in rows}

\* an update_node_metadata that writes the title alone
update_node_metadata_title_only(rows, node_id, m) ==
    {IF r.id # node_id THEN r ELSE [r EXCEPT !.title = m.title] : r \in rows}

\* Repository::update_node_metadata: the six user fields of row node_id
update_node_metadata(rows, node_id, m) ==
    {IF r.id # node_id THEN r
     ELSE [r EXCEPT !.title = m.title, !.source_url = m.source_url,
                    !.version = m.version, !.release_date = m.release_date,
                    !.tags = TagsToColumn(m.tags), !.description = m.description]
     : r \in rows}

----------------------------------------------------------------------------
(* Graph: a value [nodes, free, edges, by_hash, by_id] *)

TheGraph == [nodes |-> gnodes, free |-> gfree, edges |-> gedges,
             by_hash |-> hash_to_node, by_id |-> db_id_to_node]

\* RomGraph::new
EmptyGraph == [nodes |-> <<>>, free |-> <<>>, edges |-> <<>>,
               by_hash |-> EmptyMap, by_id |-> EmptyMap]

\* StableGraph::add_node: the most recently vacated slot, else a new slot
NextNodeIndex(g) == IF g.free # <<>> THEN Head(g.free) ELSE Len(g.nodes) + 1

\* RomGraph::add_node
graph_add_node(g, node) ==
    LET idx == NextNodeIndex(g)
    IN [g EXCEPT !.nodes = IF g.free # <<>> THEN [g.nodes EXCEPT ![idx] = node]
                           ELSE Append(g.nodes, node),
                 !.free = IF g.free # <<>> THEN Tail(g.free) ELSE g.free,
                 !.by_hash = MapPut(g.by_hash, node.sha256, idx),
                 !.by_id = MapPut(g.by_id, node.db_id, idx)]

\* RomGraph::add_edge
graph_add_edge(g, source, target, edge) ==
    [g EXCEPT !.edges = Append(g.edges, [src |-> source, tgt |-> target, w |-> edge])]

\* RomGraph::get_node_by_hash / get_node_by_db_id: the index, or 0 for None
graph_get_node_by_hash(g, sha256) ==
    IF sha256 \in DOMAIN g.by_hash THEN g.by_hash[sha256] ELSE 0
graph_get_node_by_db_id(g, db_id) ==
    IF db_id \in DOMAIN g.by_id THEN g.by_id[db_id] ELSE 0

\* whether index idx holds a node (node_weight(idx).is_some())
graph_has_node(g, idx) == idx \in 1..Len(g.nodes) /\ g.nodes[idx] # Vacant

\* a remove_node that leaves the db-id index alone
graph_remove_node_keep_id(g, idx) ==
    IF ~graph_has_node(g, idx) THEN g
    ELSE [nodes |-> [g.nodes EXCEPT ![idx] = Vacant],
          free |-> <<idx>> \o g.free,
          edges |-> SelectSeq(g.edges, LAMBDA e : e.src # idx /\ e.tgt # idx),
          by_hash |-> MapDel(g.by_hash, g.nodes[idx].sha256),
          by_id |-> g.by_id]

\* a remove_node that leaves the edges of the node in the graph
graph_remove_node_keep_edges(g, idx) ==
    IF ~graph_has_node(g, idx) THEN g
    ELSE [nodes |-> [g.nodes EXCEPT ![idx] = Vacant],
          free |-> <<idx>> \o g.free,
          edges |-> g.edges,
          by_hash |-> MapDel(g.by_hash, g.nodes[idx].sha256),
          by_id |-> MapDel(g.by_id, g.nodes[idx].db_id)]

\* RomGraph::remove_node: the slot is vacated and pushed on the free list,
\* the incident edges go with it, both indexes forget the node
graph_remove_node(g, idx) ==
    IF ~graph_has_node(g, idx) THEN g
    ELSE LET node == g.nodes[idx]
         IN [nodes |-> [g.nodes EXCEPT ![idx] = Vacant],
             free |-> <<idx>> \o g.free,
             edges |-> SelectSeq(g.edges, LAMBDA e : e.src # idx /\ e.tgt # idx),
             by_hash |-> MapDel(g.by_hash, node.sha256),
             by_id |-> MapDel(g.by_id, node.db_id)]

\* StorageManager::find_node_by_hash_prefix over RomGraph::iter_nodes: the
\* first occupied slot, in index order, whose hex hash starts with the
\* lowercased prefix; 0 for None.  The digits A..F are written 26..31.
find_node_by_hash_prefix(g, prefix) ==
    LET prefix_lower == [i \in 1..Len(prefix) |->
                            IF prefix[i] \in 26..31 THEN prefix[i] - 16 ELSE prefix[i]]
        found == {i \in 1..Len(g.nodes) :
                     /\ g.nodes[i] # Vacant
                     /\ Len(prefix_lower) <= HashLen
                     /\ SubSeq(format_hash(g.nodes[i].sha256), 1, Len(prefix_lower)) = prefix_lower}
    IN IF found = {} THEN 0 ELSE CHOOSE i \in found : \A j \in found : i <= j

\* RomNode as the manager builds it
RomNode(db_id, sha256, filename, title, version) ==
    [db_id |-> db_id, sha256 |-> sha256, filename |-> filename,
     title |-> title, version |-> version]

\* DiffEdge
DiffEdge(db_id, diff_path, diff_size) ==
    [db_id |-> db_id, diff_path |-> diff_path, diff_size |-> diff_size]

----------------------------------------------------------------------------
(* Path finding *)

\* an edge iteration in the order the edges were added
OutgoingOldestFirst(g, n) == SelectSeq(g.edges, LAMBDA e : e.src = n)

\* graph.edges(n): the outgoing edges of n, most recently added first
Outgoing(g, n) == Reverse(SelectSeq(g.edges, LAMBDA e : e.src = n))

\* the for-loop of find_path over the outgoing edges of current
RECURSIVE ScanEdges(_, _, _, _, _, _)
ScanEdges(es, current, source, target, visited, queue) ==
    IF es = <<>> THEN [found |-> FALSE, visited |-> visited, queue |-> queue]
    ELSE LET neighbor == Head(es).tgt
         IN IF neighbor \in DOMAIN visited \/ neighbor = source
            THEN ScanEdges(Tail(es), current, source, target, visited, queue)
            ELSE LET v2 == MapPut(visited, neighbor, [prev |-> current, edge |-> Head(es).w])
                 IN IF neighbor = target
                    THEN [found |-> TRUE, visited |-> v2, queue |-> queue]
                    ELSE ScanEdges(Tail(es), current, source, target, v2,
                                   Append(queue, neighbor))

\* a reconstruct_path that leaves out the steps between source and target
reconstruct_path_ends_only(source, current, visited) ==
    IF current = source THEN <<[node_idx |-> source, edge |-> <<>>]>>
    ELSE <<[node_idx |-> source, edge |-> <<>>],
           [node_idx |-> current, edge |-> <<visited[current].edge>>]>>

\* RomGraph::reconstruct_path
RECURSIVE reconstruct_path(_, _, _)
reconstruct_path(source, current, visited) ==
    IF current = source THEN <<[node_idx |-> source, edge |-> <<>>]>>
    ELSE reconstruct_path(source, visited[current].prev, visited)
         \o <<[node_idx |-> current, edge |-> <<visited[current].edge>>]>>

\* the while-loop of find_path; <<>> is None
RECURSIVE Bfs(_, _, _, _, _)
Bfs(g, source, target, visited, queue) ==
    IF queue = <<>> THEN <<>>
    ELSE LET r == ScanEdges(Outgoing(g, Head(queue)), Head(queue), source, target,
                            visited, Tail(queue))
         IN IF r.found THEN reconstruct_path(source, target, r.visited)
            ELSE Bfs(g, source, target, r.visited, r.queue)

\* find_path without the case of source and target being one node
graph_find_path_no_self(g, source, target) == Bfs(g, source, target, EmptyMap, <<source>>)

\* RomGraph::find_path
graph_find_path(g, source, target) ==
    IF source = target THEN <<[node_idx |-> source, edge |-> <<>>]>>
    ELSE Bfs(g, source, target, EmptyMap, <<source>>)

\* StorageManager::find_path
find_path(g, source_hash, target_hash) ==
    LET source_idx == graph_get_node_by_hash(g, source_hash)
        target_idx == graph_get_node_by_hash(g, target_hash)
    IN IF source_idx = 0 \/ target_idx = 0 THEN <<>>
       ELSE graph_find_path(g, source_idx, target_idx)

\* the patch loop of build_rom over the steps after the source
RECURSIVE ApplyPath(_, _, _)
ApplyPath(steps, current_bytes, dir) ==
    IF steps = <<>> THEN [ok |-> TRUE, err |-> "", bytes |-> current_bytes]
    ELSE IF Head(steps).edge = <<>> THEN ApplyPath(Tail(steps), current_bytes, dir)
    ELSE LET r == apply_diff(current_bytes, dir, Head(steps).edge[1].diff_path)
         IN IF ~r.ok THEN [ok |-> FALSE, err |-> r.err, bytes |-> <<>>]
            ELSE ApplyPath(Tail(steps), r.bytes, dir)

BuildErr(e) == [ok |-> FALSE, err |-> e, bytes |-> <<>>, steps |-> 0, path |-> <<>>,
                header |-> <<>>]

\* a build_rom that does not look the source up
build_rom_no_lookup(g, rows, dir, source_path, target_hash) ==
    LET source_meta == hash_rom_file(source_path)
        path == find_path(g, source_meta.sha256, target_hash)
        r == ApplyPath(Tail(path), read_rom_bytes(source_path).bytes, dir)
        target_rows == get_node_by_hash(rows, target_hash)
    IN IF ~source_meta.ok THEN BuildErr(source_meta.err)
       ELSE IF path = <<>> THEN BuildErr("NoPath")
       ELSE IF ~r.ok THEN BuildErr(r.err)
       ELSE IF target_rows = {} THEN BuildErr("RomNotFound")
       ELSE [ok |-> TRUE, err |-> "", bytes |-> r.bytes, steps |-> Len(path) - 1,
             path |-> path, header |-> (CHOOSE t \in target_rows : TRUE).source_file_header]

\* StorageManager::build_rom
build_rom(g, rows, dir, source_path, target_hash) ==
    LET source_meta == hash_rom_file(source_path)
    IN IF ~source_meta.ok THEN BuildErr(source_meta.err)
       ELSE IF ~graph_has_node(g, graph_get_node_by_hash(g, source_meta.sha256))
       THEN BuildErr("RomNotFound")
       ELSE LET path == find_path(g, source_meta.sha256, target_hash)
                source == read_rom_bytes(source_path)
            IN IF path = <<>> THEN BuildErr("NoPath")
               ELSE IF ~source.ok THEN BuildErr(source.err)
               ELSE LET r == ApplyPath(Tail(path), source.bytes, dir)
                        target_rows == get_node_by_hash(rows, target_hash)
                    IN IF ~r.ok THEN BuildErr(r.err)
                       ELSE IF target_rows = {} THEN BuildErr("RomNotFound")
                       ELSE [ok |-> TRUE, err |-> "", bytes |-> r.bytes,
                             steps |-> Len(path) - 1, path |-> path,
                             header |-> (CHOOSE t \in target_rows : TRUE).source_file_header]

\* a cmd_build that writes the built bytes alone
FinalBytesNoHeader(result) == result.bytes

\* cmd_build: the raw header, when stored, in front of the built bytes
FinalBytes(result) ==
    IF result.header # <<>> THEN reconstruct_nes_file_raw(result.header, result.bytes)
    ELSE result.bytes

----------------------------------------------------------------------------
(* StorageManager operations *)

\* The number of calls that change the store which a behaviour makes (row ids
\* grow without limit as rows are deleted and inserted).
MaxOps == 5

\* the same budget for the behaviours that start from three stored ROMs, and
\* for those that use every operation
MaxLinkOps == 4
MaxAllOps == 3

\* and for the behaviours that close and open the data directory
MaxOpenOps == 2

\* a call is counted when it changed the store or brought the process down
Counted == ops' = IF store' = store /\ running' = running THEN ops ELSE ops + 1

SetGraph(g) ==
    /\ gnodes' = g.nodes
    /\ gfree' = g.free
    /\ gedges' = g.edges
    /\ hash_to_node' = g.by_hash
    /\ db_id_to_node' = g.by_id

UnchangedGraph == UNCHANGED <<gnodes, gfree, gedges, hash_to_node, db_id_to_node>>

\* What a call was and what it returned: the operation, its result ("ok", an
\* error kind, or "panic"), the hashes it was about, two counts, the bytes it
\* produced (build) or the raw header it read (add) and the diff files it applied.
Returned(op, res, ha, hb, n1, n2, out, applied) ==
    [op |-> op, res |-> res, ha |-> ha, hb |-> hb, n1 |-> n1, n2 |-> n2,
     out |-> out, applied |-> applied]

\* .expect(..) on None: the process aborts, the store stays as it is
Panic(op, ha) ==
    /\ running' = FALSE
    /\ last' = Returned(op, "panic", ha, <<>>, 0, 0, <<>>, <<>>)
    /\ UNCHANGED store

\* an Err returned before anything was written
Fail(op, err, ha, hb) ==
    /\ last' = Returned(op, err, ha, hb, 0, 0, <<>>, <<>>)
    /\ UNCHANGED <<store, running>>

\* StorageManager::load_graph_from_db, the node loop
RECURSIVE LoadNodes(_, _)
LoadNodes(g, rows) ==
    IF rows = <<>> THEN g
    ELSE LoadNodes(graph_add_node(g, RomNode(Head(rows).id, Head(rows).sha256,
                                             Head(rows).filename, Head(rows).title,
                                             Head(rows).version)),
                   Tail(rows))

\* StorageManager::load_graph_from_db, the edge loop
RECURSIVE LoadEdges(_, _)
LoadEdges(g, erows) ==
    IF erows = <<>> THEN g
    ELSE LET source_idx == graph_get_node_by_db_id(g, Head(erows).source_id)
             target_idx == graph_get_node_by_db_id(g, Head(erows).target_id)
         IN IF source_idx # 0 /\ target_idx # 0
            THEN LoadEdges(graph_add_edge(g, source_idx, target_idx,
                                          DiffEdge(Head(erows).id, Head(erows).diff_path,
                                                   Head(erows).diff_size)),
                           Tail(erows))
            ELSE LoadEdges(g, Tail(erows))

\* a load that reads the edge rows of one direction only
load_graph_from_db_one_way(rows, erows) ==
    LoadEdges(LoadNodes(EmptyGraph, SortById(rows)),
              SortById({e \in erows : e.source_id <= e.target_id}))

\* StorageManager::load_graph_from_db
load_graph_from_db(rows, erows) ==
    LoadEdges(LoadNodes(EmptyGraph, SortById(rows)), SortById(erows))

\* db/schema.rs: the revision of the stored data this program reads and writes
DATA_REVISION == 1

\* get_stored_data_revision returns None: no dromos_meta table, no
\* data_revision key, or a value that is not a u32
NoRevision == -1

\* get_stored_data_revision
get_stored_data_revision(exists, stored) == IF exists THEN stored ELSE NoRevision

\* has_existing_data
has_existing_data(exists, has_nodes_table) == exists /\ has_nodes_table

\* a gate that wipes whenever the stored revision is not the program's
needs_wipe_on_mismatch(exists, stored_revision, has_data) ==
    /\ exists
    /\ IF stored_revision # NoRevision THEN stored_revision # DATA_REVISION ELSE has_data

\* StorageManager::open, the revision gate
needs_wipe(exists, stored_revision, has_data) ==
    /\ exists
    /\ IF stored_revision # NoRevision THEN stored_revision < DATA_REVISION ELSE has_data

\* a set_data_revision that keeps a value already stored (INSERT OR IGNORE)
set_data_revision_if_absent(stored, revision) ==
    IF stored = NoRevision THEN revision ELSE stored

\* set_data_revision: INSERT OR REPLACE
set_data_revision(stored, revision) == revision

\* StorageManager::open; the result carries whether it wiped and how many
\* files of diffs/ it deleted.  undeletable: the files of diffs/ that remove_file
\* fails on; the wipe stops at the first of them, in directory order, with
\* the database file already deleted.
Open(undeletable) ==
    /\ ~running
    /\ UNCHANGED output
    /\ LET wipe == needs_wipe(db_exists, get_stored_data_revision(db_exists, data_revision),
                              has_existing_data(db_exists, nodes_table))
           rows == IF wipe THEN {} ELSE nodes
           erows == IF wipe THEN {} ELSE edges
       IN IF wipe /\ DOMAIN diffs \cap undeletable # {}
          THEN /\ \E gone \in SUBSET (DOMAIN diffs \ undeletable) :
                      diffs' = [f \in DOMAIN diffs \ gone |-> diffs[f]]
               /\ nodes' = {}
               /\ edges' = {}
               /\ db_exists' = FALSE
               /\ data_revision' = NoRevision
               /\ nodes_table' = FALSE
               /\ last' = Returned("open", "Io", <<>>, <<>>, 1, 0, <<>>, <<>>)
               /\ UnchangedGraph
               /\ UNCHANGED running
          ELSE /\ diffs' = IF wipe THEN EmptyMap ELSE diffs
               /\ nodes' = rows
               /\ edges' = erows
               /\ db_exists' = TRUE
               /\ nodes_table' = TRUE
               /\ data_revision' = set_data_revision(IF wipe THEN NoRevision
                                                     ELSE get_stored_data_revision(db_exists, data_revision),
                                                     DATA_REVISION)
               /\ SetGraph(load_graph_from_db(rows, erows))
               /\ running' = TRUE
               /\ last' = Returned("open", "ok", <<>>, <<>>, IF wipe THEN 1 ELSE 0,
                                   IF wipe THEN Cardinality(DOMAIN diffs) ELSE 0, <<>>, <<>>)

\* the StorageManager is dropped: the process ends, the files stay
Close ==
    /\ running
    /\ running' = FALSE
    /\ last' = Returned("close", "ok", <<>>, <<>>, 0, 0, <<>>, <<>>)
    /\ UNCHANGED <<store, database, output>>

\* StorageManager::add_node
AddNode(path, node_metadata) ==
    /\ running
    /\ LET metadata == hash_rom_file(path)
       IN IF ~metadata.ok THEN Fail("add_node", metadata.err, <<>>, <<>>)
          ELSE LET ins == insert_node(nodes, metadata, node_metadata)
               IN IF ~ins.ok
                  THEN /\ last' = Returned("add_node", ins.err, metadata.sha256, <<>>,
                                           0, 0, metadata.source_file_header, <<>>)
                       /\ UNCHANGED <<store, running>>
                  ELSE /\ nodes' = ins.rows
                       /\ SetGraph(graph_add_node(TheGraph,
                              RomNode(ins.id, metadata.sha256, metadata.filename,
                                      node_metadata.title, node_metadata.version)))
                       /\ last' = Returned("add_node", "ok", metadata.sha256, <<>>,
                                           0, 0, metadata.source_file_header, <<>>)
                       /\ UNCHANGED <<edges, diffs, running>>
    /\ UNCHANGED <<database, output>>
    /\ Counted

\* a create_diff whose file is not on disk when it returns
create_diff_unwritten(dir, old, new, name) == dir

\* create_diff: the patch file is (over)written, its length returned
create_diff(dir, old, new, name) == MapPut(dir, name, BsdiffPatch(old, new))

\* a graph update that adds the edge from a to b alone
LinkGraphOneWay(g, id_a, id_b, name_ab, size_ab, name_ba, size_ba) ==
    LET idx_a == graph_get_node_by_db_id(g, id_a)
        idx_b == graph_get_node_by_db_id(g, id_b)
    IN IF idx_a # 0 /\ idx_b # 0
       THEN graph_add_edge(g, idx_a, idx_b, DiffEdge(0, name_ab, size_ab))
       ELSE g

\* the graph update at the end of link_nodes
LinkGraph(g, id_a, id_b, name_ab, size_ab, name_ba, size_ba) ==
    LET idx_a == graph_get_node_by_db_id(g, id_a)
        idx_b == graph_get_node_by_db_id(g, id_b)
    IN IF idx_a # 0 /\ idx_b # 0
       THEN graph_add_edge(graph_add_edge(g, idx_a, idx_b, DiffEdge(0, name_ab, size_ab)),
                           idx_b, idx_a, DiffEdge(0, name_ba, size_ba))
       ELSE g

\* StorageManager::link_nodes
LinkNodes(path_a, path_b) ==
    /\ running
    /\ LET bytes_a == read_rom_bytes(path_a)
           bytes_b == read_rom_bytes(path_b)
           metadata_a == hash_rom_file(path_a)
           metadata_b == hash_rom_file(path_b)
       IN IF ~bytes_a.ok THEN Fail("link_nodes", bytes_a.err, <<>>, <<>>)
          ELSE IF ~bytes_b.ok THEN Fail("link_nodes", bytes_b.err, <<>>, <<>>)
          ELSE IF ~metadata_a.ok THEN Fail("link_nodes", metadata_a.err, <<>>, <<>>)
          ELSE IF ~metadata_b.ok THEN Fail("link_nodes", metadata_b.err, <<>>, <<>>)
          ELSE IF get_node_by_hash(nodes, metadata_a.sha256) = {}
                  \/ get_node_by_hash(nodes, metadata_b.sha256) = {}
          THEN Panic("link_nodes", <<>>)
          ELSE LET node_a == CHOOSE r \in get_node_by_hash(nodes, metadata_a.sha256) : TRUE
                   node_b == CHOOSE r \in get_node_by_hash(nodes, metadata_b.sha256) : TRUE
                   name_ab == DiffFilename(metadata_a.sha256, metadata_b.sha256)
                   name_ba == DiffFilename(metadata_b.sha256, metadata_a.sha256)
                   size_ab == PatchLen(BsdiffPatch(bytes_a.bytes, bytes_b.bytes))
                   size_ba == PatchLen(BsdiffPatch(bytes_b.bytes, bytes_a.bytes))
                   dir == create_diff(create_diff(diffs, bytes_a.bytes, bytes_b.bytes, name_ab),
                                      bytes_b.bytes, bytes_a.bytes, name_ba)
                   ins_ab == insert_edge(edges, node_a.id, node_b.id, name_ab, size_ab)
                   ins_ba == insert_edge(ins_ab.rows, node_b.id, node_a.id, name_ba, size_ba)
               IN /\ diffs' = dir
                  /\ UNCHANGED <<nodes, running>>
                  /\ IF ~ins_ab.ok
                     THEN /\ UNCHANGED edges
                          /\ UnchangedGraph
                          /\ last' = Returned("link_nodes", ins_ab.err, metadata_a.sha256,
                                              metadata_b.sha256, 0, 0, <<>>, <<>>)
                     ELSE IF ~ins_ba.ok
                     THEN /\ edges' = ins_ab.rows
                          /\ UnchangedGraph
                          /\ last' = Returned("link_nodes", ins_ba.err, metadata_a.sha256,
                                              metadata_b.sha256, 0, 0, <<>>, <<>>)
                     ELSE /\ edges' = ins_ba.rows
                          /\ SetGraph(LinkGraph(TheGraph, node_a.id, node_b.id,
                                                name_ab, size_ab, name_ba, size_ba))
                          /\ last' = Returned("link_nodes", "ok", metadata_a.sha256,
                                              metadata_b.sha256, size_ab, size_ba, <<>>, <<>>)
    /\ UNCHANGED <<database, output>>
    /\ Counted

\* StorageManager::link_nodes one persistent effect at a time.  The position
\* in the call is kept in last: res = "running", n1 = the number of effects
\* done, out = the two bodies read at the start.  Position 0 is the call
\* itself, with its reads and lookups and the first create_diff.
LinkNodesStep(path_a, path_b) ==
    /\ running
    /\ IF last.op = "link_nodes" /\ last.res = "running"
       THEN LET bytes_a == last.out[1]
                bytes_b == last.out[2]
                node_a == CHOOSE r \in get_node_by_hash(nodes, last.ha) : TRUE
                node_b == CHOOSE r \in get_node_by_hash(nodes, last.hb) : TRUE
                name_ab == DiffFilename(last.ha, last.hb)
                name_ba == DiffFilename(last.hb, last.ha)
                size_ab == PatchLen(BsdiffPatch(bytes_a, bytes_b))
                size_ba == PatchLen(BsdiffPatch(bytes_b, bytes_a))
                ins_ab == insert_edge(edges, node_a.id, node_b.id, name_ab, size_ab)
                ins_ba == insert_edge(edges, node_b.id, node_a.id, name_ba, size_ba)
            IN /\ UNCHANGED <<nodes, running>>
               /\ CASE last.n1 = 1 ->
                         /\ diffs' = create_diff(diffs, bytes_b, bytes_a, name_ba)
                         /\ last' = [last EXCEPT !.n1 = 2]
                         /\ UNCHANGED edges
                         /\ UnchangedGraph
                    [] last.n1 = 2 ->
                         /\ edges' = IF ins_ab.ok THEN ins_ab.rows ELSE edges
                         /\ last' = IF ins_ab.ok THEN [last EXCEPT !.n1 = 3]
                                    ELSE Returned("link_nodes", ins_ab.err, last.ha, last.hb,
                                                  0, 0, <<>>, <<>>)
                         /\ UNCHANGED diffs
                         /\ UnchangedGraph
                    [] last.n1 = 3 ->
                         /\ edges' = IF ins_ba.ok THEN ins_ba.rows ELSE edges
                         /\ last' = IF ins_ba.ok THEN [last EXCEPT !.n1 = 4]
                                    ELSE Returned("link_nodes", ins_ba.err, last.ha, last.hb,
                                                  0, 0, <<>>, <<>>)
                         /\ UNCHANGED diffs
                         /\ UnchangedGraph
                    [] OTHER ->
                         /\ SetGraph(LinkGraph(TheGraph, node_a.id, node_b.id,
                                               name_ab, size_ab, name_ba, size_ba))
                         /\ last' = Returned("link_nodes", "ok", last.ha, last.hb,
                                             size_ab, size_ba, <<>>, <<>>)
                         /\ UNCHANGED <<edges, diffs>>
       ELSE LET bytes_a == read_rom_bytes(path_a)
                bytes_b == read_rom_bytes(path_b)
                metadata_a == hash_rom_file(path_a)
                metadata_b == hash_rom_file(path_b)
            IN IF ~bytes_a.ok THEN Fail("link_nodes", bytes_a.err, <<>>, <<>>)
               ELSE IF ~bytes_b.ok THEN Fail("link_nodes", bytes_b.err, <<>>, <<>>)
               ELSE IF ~metadata_a.ok THEN Fail("link_nodes", metadata_a.err, <<>>, <<>>)
               ELSE IF ~metadata_b.ok THEN Fail("link_nodes", metadata_b.err, <<>>, <<>>)
               ELSE IF get_node_by_hash(nodes, metadata_a.sha256) = {}
                       \/ get_node_by_hash(nodes, metadata_b.sha256) = {}
               THEN Panic("link_nodes", <<>>)
               ELSE /\ diffs' = create_diff(diffs, bytes_a.bytes, bytes_b.bytes,
                                            DiffFilename(metadata_a.sha256, metadata_b.sha256))
                    /\ last' = Returned("link_nodes", "running", metadata_a.sha256,
                                        metadata_b.sha256, 1, 0,
                                        <<bytes_a.bytes, bytes_b.bytes>>, <<>>)
                    /\ UNCHANGED <<nodes, edges, running>>
                    /\ UnchangedGraph
    /\ UNCHANGED <<database, output>>
    /\ Counted

\* a file loop that counts every incident edge
RECURSIVE RemoveDiffFilesCountAll(_, _, _, _)
RemoveDiffFilesCountAll(es, dir, undeletable, count) ==
    IF es = <<>> THEN [dir |-> dir, count |-> count]
    ELSE IF Head(es).diff_path \in DOMAIN dir /\ Head(es).diff_path \notin undeletable
    THEN RemoveDiffFilesCountAll(Tail(es), MapDel(dir, Head(es).diff_path), undeletable, count + 1)
    ELSE RemoveDiffFilesCountAll(Tail(es), dir, undeletable, count + 1)

\* the file loop of remove_node: each incident edge's patch file is deleted
\* when it is there and can be deleted; the count is of the successful deletes
RECURSIVE RemoveDiffFiles(_, _, _, _)
RemoveDiffFiles(es, dir, undeletable, count) ==
    IF es = <<>> THEN [dir |-> dir, count |-> count]
    ELSE IF Head(es).diff_path \in DOMAIN dir /\ Head(es).diff_path \notin undeletable
    THEN RemoveDiffFiles(Tail(es), MapDel(dir, Head(es).diff_path), undeletable, count + 1)
    ELSE RemoveDiffFiles(Tail(es), dir, undeletable, count)

\* StorageManager::remove_node; undeletable are the files whose removal fails
\* with an I/O error other than NotFound
RemoveNode(sha256, undeletable) ==
    /\ running
    /\ IF get_node_by_hash(nodes, sha256) = {} THEN Panic("remove_node", sha256)
       ELSE LET node_row == CHOOSE r \in get_node_by_hash(nodes, sha256) : TRUE
                es == get_edges_for_node(edges, node_row.id)
                rm == RemoveDiffFiles(SortById(es), diffs, undeletable, 0)
                idx == graph_get_node_by_hash(TheGraph, sha256)
            IN /\ diffs' = rm.dir
               /\ edges' = delete_node_edges(edges, node_row.id)
               /\ nodes' = delete_node_row(nodes, node_row.id)
               /\ SetGraph(IF idx # 0 THEN graph_remove_node(TheGraph, idx) ELSE TheGraph)
               /\ last' = Returned("remove_node", "ok", sha256, <<>>,
                                   Cardinality(es), rm.count, <<>>, <<>>)
               /\ UNCHANGED running
    /\ UNCHANGED <<database, output>>
    /\ Counted

\* a graph update that caches the title alone
graph_set_title_only(g, sha256, m) ==
    LET idx == graph_get_node_by_hash(g, sha256)
    IN IF graph_has_node(g, idx) THEN [g EXCEPT !.nodes[idx].title = m.title] ELSE g

\* the graph part of update_node_metadata: the cached title and version
graph_set_title(g, sha256, m) ==
    LET idx == graph_get_node_by_hash(g, sha256)
    IN IF graph_has_node(g, idx)
       THEN [g EXCEPT !.nodes[idx].title = m.title, !.nodes[idx].version = m.version]
       ELSE g

\* StorageManager::update_node_metadata
UpdateNodeMetadata(sha256, node_metadata) ==
    /\ running
    /\ IF get_node_by_hash(nodes, sha256) = {}
       THEN Fail("update_node_metadata", "RomNotFound", sha256, <<>>)
       ELSE LET node_row == CHOOSE r \in get_node_by_hash(nodes, sha256) : TRUE
            IN /\ nodes' = update_node_metadata(nodes, node_row.id, node_metadata)
               /\ SetGraph(graph_set_title(TheGraph, sha256, node_metadata))
               /\ last' = Returned("update_node_metadata", "ok", sha256, <<>>,
                                   0, 0, <<node_metadata>>, <<>>)
               /\ UNCHANGED <<edges, diffs, running>>
    /\ UNCHANGED <<database, output>>
    /\ Counted

\* build (cmd_build over StorageManager::build_rom): nothing is changed, the
\* call returns the steps, the file bytes and the patch files it applied
BuildRom(source_path, target_hash) ==
    /\ running
    /\ LET result == build_rom(TheGraph, nodes, diffs, source_path, target_hash)
           source_meta == hash_rom_file(source_path)
       IN last' = Returned("build_rom", IF result.ok THEN "ok" ELSE result.err,
                           IF source_meta.ok THEN source_meta.sha256 ELSE <<>>,
                           target_hash, result.steps, 0,
                           IF result.ok THEN FinalBytes(result) ELSE <<>>,
                           IF result.ok
                           THEN [i \in 1..result.steps |-> result.path[i + 1].edge[1].diff_path]
                           ELSE <<>>)
    /\ UNCHANGED <<store, database, output, running, ops>>

----------------------------------------------------------------------------
(* Exchange: import *)

\* SHA-256 of the bytes of a patch file, as hex text
PatchChecksum(p) == format_hash(hash_bytes(p.old \o <<0>> \o p.new))

\* BASE64.encode / BASE64.decode(..).ok(); <<>> is None
Base64Encode(bytes) == [b64 |-> bytes]
Base64Decode(text) == text.b64

\* node_metadata_from_export
node_metadata_from_export(node) ==
    [title |-> node.title, source_url |-> node.source_url, version |-> node.version,
     release_date |-> node.release_date, tags |-> node.tags,
     description |-> node.description]

\* rom_metadata_from_export (the hash was parsed by the caller)
rom_metadata_from_export(node) ==
    IF node.rom_type # "NES" THEN [ok |-> FALSE, err |-> "Import"]
    ELSE [ok |-> TRUE, sha256 |-> parse_hash(node.sha256), filename |-> node.filename,
          source_file_header |-> IF node.source_file_header = <<>> THEN <<>>
                                 ELSE Base64Decode(node.source_file_header[1])]

\* the state execute_import works on: the tables, the graph, diffs/, the
\* hash -> db id map, the ImportResult counters and the error it stopped with
ImportStart(rows, erows, g, dir) ==
    [rows |-> rows, erows |-> erows, g |-> g, dir |-> dir, hash_to_db_id |-> EmptyMap,
     nodes_added |-> 0, nodes_skipped |-> 0, nodes_overwritten |-> 0,
     edges_added |-> 0, edges_skipped |-> 0, diffs_copied |-> 0, err |-> ""]

\* execute_import, the loop over manifest.files
RECURSIVE ImportNodes(_, _, _)
ImportNodes(files, overwrite, st) ==
    IF files = <<>> THEN st
    ELSE LET import_node == Head(files)
             hash == parse_hash(import_node.sha256)
             existing == get_node_by_hash(st.rows, hash)
             node_meta == node_metadata_from_export(import_node)
         IN IF hash = NoBytes THEN [st EXCEPT !.err = "Import"]
            ELSE IF existing # {}
            THEN LET row == CHOOSE r \in existing : TRUE
                     ids == MapPut(st.hash_to_db_id, import_node.sha256, row.id)
                 IN IF overwrite
                    THEN ImportNodes(Tail(files), overwrite,
                             [st EXCEPT !.rows = update_node_metadata(st.rows, row.id, node_meta),
                                        !.g = graph_set_title(st.g, hash, node_meta),
                                        !.nodes_overwritten = @ + 1,
                                        !.hash_to_db_id = ids])
                    ELSE ImportNodes(Tail(files), overwrite,
                             [st EXCEPT !.nodes_skipped = @ + 1, !.hash_to_db_id = ids])
            ELSE LET rom_meta == rom_metadata_from_export(import_node)
                     ins == insert_node(st.rows, rom_meta, node_meta)
                 IN IF ~rom_meta.ok THEN [st EXCEPT !.err = rom_meta.err]
                    ELSE ImportNodes(Tail(files), overwrite,
                             [st EXCEPT !.rows = ins.rows,
                                        !.g = graph_add_node(st.g,
                                                 RomNode(ins.id, hash, import_node.filename,
                                                         node_meta.title, node_meta.version)),
                                        !.hash_to_db_id = MapPut(@, import_node.sha256, ins.id),
                                        !.nodes_added = @ + 1])

\* a resolve that knows the nodes of this import alone
ResolveEndNoLookup(st, sha_text) ==
    IF sha_text \in DOMAIN st.hash_to_db_id THEN st.hash_to_db_id[sha_text]
    ELSE IF parse_hash(sha_text) = NoBytes THEN -1
    ELSE 0

\* resolving one end of a manifest edge: the db id, 0 to skip the edge, -1
\* for a hash that does not parse
ResolveEnd(st, sha_text) ==
    IF sha_text \in DOMAIN st.hash_to_db_id THEN st.hash_to_db_id[sha_text]
    ELSE IF parse_hash(sha_text) = NoBytes THEN -1
    ELSE IF get_node_by_hash(st.rows, parse_hash(sha_text)) = {} THEN 0
    ELSE (CHOOSE r \in get_node_by_hash(st.rows, parse_hash(sha_text)) : TRUE).id

\* the graph update for an edge row that was inserted
ImportGraphEdge(g, import_edge, edge_db_id) ==
    LET src_idx == graph_get_node_by_hash(g, parse_hash(import_edge.source_sha256))
        tgt_idx == graph_get_node_by_hash(g, parse_hash(import_edge.target_sha256))
    IN IF src_idx # 0 /\ tgt_idx # 0
       THEN graph_add_edge(g, src_idx, tgt_idx,
                           DiffEdge(edge_db_id, import_edge.diff_path, import_edge.diff_size))
       ELSE g

\* execute_import, the loop over manifest.diffs that inserts the edges
RECURSIVE ImportEdges(_, _)
ImportEdges(ds, st) ==
    IF ds = <<>> THEN st
    ELSE LET import_edge == Head(ds)
             source_id == ResolveEnd(st, import_edge.source_sha256)
             target_id == ResolveEnd(st, import_edge.target_sha256)
             ins == insert_edge(st.erows, source_id, target_id, import_edge.diff_path,
                                import_edge.diff_size)
         IN IF source_id = -1 THEN [st EXCEPT !.err = "Import"]
            ELSE IF source_id = 0 THEN ImportEdges(Tail(ds), st)
            ELSE IF target_id = -1 THEN [st EXCEPT !.err = "Import"]
            ELSE IF target_id = 0 THEN ImportEdges(Tail(ds), st)
            ELSE IF ins.ok
            THEN ImportEdges(Tail(ds),
                     [st EXCEPT !.erows = ins.rows,
                                !.g = ImportGraphEdge(st.g, import_edge, ins.id),
                                !.edges_added = @ + 1])
            ELSE ImportEdges(Tail(ds), [st EXCEPT !.edges_skipped = @ + 1])

\* a copy loop that does not look whether the file exists locally
RECURSIVE ImportDiffsReplacing(_, _, _)
ImportDiffsReplacing(ds, folder_diffs, st) ==
    IF ds = <<>> THEN st
    ELSE LET import_edge == Head(ds)
             name == import_edge.diff_path
         IN IF name \notin DOMAIN folder_diffs
            THEN ImportDiffsReplacing(Tail(ds), folder_diffs, st)
            ELSE IF import_edge.sha256 # <<>>
                    /\ PatchChecksum(folder_diffs[name]) # import_edge.sha256
            THEN [st EXCEPT !.err = "Import"]
            ELSE ImportDiffsReplacing(Tail(ds), folder_diffs,
                     [st EXCEPT !.dir = MapPut(@, name, folder_diffs[name]),
                                !.diffs_copied = @ + 1])

\* execute_import, the loop over manifest.diffs that copies the patch files
RECURSIVE ImportDiffs(_, _, _)
ImportDiffs(ds, folder_diffs, st) ==
    IF ds = <<>> THEN st
    ELSE LET import_edge == Head(ds)
             name == import_edge.diff_path
         IN IF name \in DOMAIN st.dir THEN ImportDiffs(Tail(ds), folder_diffs, st)
            ELSE IF name \notin DOMAIN folder_diffs THEN ImportDiffs(Tail(ds), folder_diffs, st)
            ELSE IF import_edge.sha256 # <<>>
                    /\ PatchChecksum(folder_diffs[name]) # import_edge.sha256
            THEN [st EXCEPT !.err = "Import"]
            ELSE ImportDiffs(Tail(ds), folder_diffs,
                     [st EXCEPT !.dir = MapPut(@, name, folder_diffs[name]),
                                !.diffs_copied = @ + 1])

\* exchange::execute_import
execute_import(folder, overwrite, rows, erows, g, dir) ==
    LET s1 == ImportNodes(folder.manifest.files, overwrite, ImportStart(rows, erows, g, dir))
        s2 == IF s1.err # "" THEN s1 ELSE ImportEdges(folder.manifest.diffs, s1)
    IN IF s2.err # "" THEN s2 ELSE ImportDiffs(folder.manifest.diffs, folder.diffs, s2)

\* StorageManager::execute_import
ExecuteImport(folder, overwrite) ==
    /\ running
    /\ LET st == execute_import(folder, overwrite, nodes, edges, TheGraph, diffs)
       IN /\ nodes' = st.rows
          /\ edges' = st.erows
          /\ SetGraph(st.g)
          /\ diffs' = st.dir
          /\ last' = Returned("execute_import", IF st.err = "" THEN "ok" ELSE st.err,
                              <<>>, <<>>, st.nodes_added, st.edges_added,
                              <<st.nodes_skipped, st.nodes_overwritten, st.edges_skipped,
                                st.diffs_copied>>, <<>>)
          /\ UNCHANGED running
    /\ UNCHANGED <<database, output>>
    /\ Counted

----------------------------------------------------------------------------
(* Exchange: export *)

\* serde_json::to_string_pretty / from_str of a manifest
ToJson(manifest) == [json |-> manifest]
FromJson(text) == text.json

\* an output folder with no index.json and no patch file
EmptyFolder == [index |-> <<>>, diffs |-> EmptyMap]

\* OverwriteAction
OverwriteActions == {"Overwrite", "Skip", "Abort"}

\* ExportHeader as write_folder fills it (exported_at, the clock, left out)
ExportHeaderNow == [version |-> 1, data_revision |-> DATA_REVISION]

\* ExportNode::from_node_row
from_node_row(row) ==
    [sha256 |-> format_hash(row.sha256), filename |-> row.filename, rom_type |-> "NES",
     source_file_header |-> IF row.source_file_header = <<>> THEN <<>>
                            ELSE <<Base64Encode(row.source_file_header)>>,
     title |-> row.title, source_url |-> row.source_url, version |-> row.version,
     release_date |-> row.release_date, tags |-> TagsFromColumn(row.tags),
     description |-> row.description]

\* ExportEdge::from_edge_row
from_edge_row(edge, source_hash, target_hash, diff_sha256) ==
    [source_sha256 |-> source_hash, target_sha256 |-> target_hash,
     diff_path |-> edge.diff_path, diff_size |-> edge.diff_size, sha256 |-> diff_sha256]

\* the two for-loops of connected_component over the edges of current
RECURSIVE VisitNeighbors(_, _, _)
VisitNeighbors(neighbors, visited, queue) ==
    IF neighbors = <<>> THEN [visited |-> visited, queue |-> queue]
    ELSE IF Head(neighbors) \in visited THEN VisitNeighbors(Tail(neighbors), visited, queue)
    ELSE VisitNeighbors(Tail(neighbors), visited \cup {Head(neighbors)},
                        Append(queue, Head(neighbors)))

\* an edges_directed(n, Incoming) that finds no edge
IncomingNone(g, n) == <<>>

\* graph.edges_directed(n, Incoming), most recently added first
Incoming(g, n) == Reverse(SelectSeq(g.edges, LAMBDA e : e.tgt = n))

\* the while-loop of connected_component
RECURSIVE ComponentBfs(_, _, _)
ComponentBfs(g, visited, queue) ==
    IF queue = <<>> THEN visited
    ELSE LET current == Head(queue)
             outs == [i \in DOMAIN Outgoing(g, current) |-> Outgoing(g, current)[i].tgt]
             ins == [i \in DOMAIN Incoming(g, current) |-> Incoming(g, current)[i].src]
             r == VisitNeighbors(outs \o ins, visited, Tail(queue))
         IN ComponentBfs(g, r.visited, r.queue)

\* a connected_component that follows the outgoing edges of start only
graph_connected_component_outgoing(g, start) ==
    {start} \cup {g.edges[k].tgt : k \in {j \in DOMAIN g.edges : g.edges[j].src = start}}

\* RomGraph::connected_component
graph_connected_component(g, start) == ComponentBfs(g, {start}, <<start>>)

\* write_folder: the hashes of the nodes to export; component_hash is <<>>
\* (None) or <<hash>>
ExportNodeHashes(g, component_hash) ==
    IF component_hash # <<>>
    THEN {g.nodes[idx].sha256 :
            idx \in {i \in graph_connected_component(
                               g, graph_get_node_by_hash(g, component_hash[1])) :
                        graph_has_node(g, i)}}
    ELSE {g.nodes[idx].sha256 : idx \in {i \in 1..Len(g.nodes) : graph_has_node(g, i)}}

\* write_folder: the manifest of the selected rows, and the patch bytes it
\* has read for them
ManifestOf(selected_nodes, selected_edges, dir) ==
    LET id_to_hash == [i \in DOMAIN selected_nodes |-> selected_nodes[i].id]
        HashOf(id) == format_hash(selected_nodes[CHOOSE i \in DOMAIN id_to_hash :
                                                     id_to_hash[i] = id].sha256)
        with_file == SelectSeq(selected_edges, LAMBDA e : e.diff_path \in DOMAIN dir)
    IN [manifest |-> [dromos_export |-> ExportHeaderNow,
                      files |-> [i \in DOMAIN selected_nodes |->
                                    With(selected_nodes[i], from_node_row)],
                      diffs |-> [i \in DOMAIN selected_edges |->
                                    With(selected_edges[i], LAMBDA e :
                                        from_edge_row(e, HashOf(e.source_id), HashOf(e.target_id),
                                                      IF e.diff_path \in DOMAIN dir
                                                      THEN PatchChecksum(dir[e.diff_path])
                                                      ELSE <<>>))]],
        diff_data |-> [i \in DOMAIN with_file |->
                          [filename |-> with_file[i].diff_path,
                           bytes |-> dir[with_file[i].diff_path]]]]

\* write_folder: the selection of the node rows and of the edge rows
BuildManifest(g, rows, erows, dir, component_hash) ==
    With(ExportNodeHashes(g, component_hash), LAMBDA node_hashes :
      With(SelectSeq(SortById(rows), LAMBDA n : n.sha256 \in node_hashes),
           LAMBDA selected_nodes :
        With({selected_nodes[i].id : i \in DOMAIN selected_nodes}, LAMBDA selected_ids :
          With(SelectSeq(SortById(erows), LAMBDA e : e.source_id \in selected_ids
                                                    /\ e.target_id \in selected_ids),
               LAMBDA selected_edges : ManifestOf(selected_nodes, selected_edges, dir)))))

\* the answer of on_conflict to its n-th call
Answer(answers, n) == IF n <= Len(answers) THEN answers[n] ELSE answers[Len(answers)]

\* a write_with_conflict_check that writes the file on Skip as well
write_with_conflict_check_no_skip(exists, action) ==
    IF exists /\ action = "Abort" THEN "Aborted" ELSE "Written"

\* write_with_conflict_check: what happens to one destination file, given
\* whether it exists and what on_conflict answers when it is asked
write_with_conflict_check(exists, action) ==
    IF exists
    THEN CASE action = "Overwrite" -> "Written"
           [] action = "Skip" -> "Skipped"
           [] action = "Abort" -> "Aborted"
    ELSE "Written"

\* write_folder: the loop that copies the patch files; asked is the list of
\* the files on_conflict was called for, with its answers
RECURSIVE WriteDiffs(_, _, _, _)
WriteDiffs(diff_data, out, answers, asked) ==
    IF diff_data = <<>> THEN [out |-> out, asked |-> asked, aborted |-> FALSE]
    ELSE LET filename == Head(diff_data).filename
             exists == filename \in DOMAIN out.diffs
             action == Answer(answers, Len(asked) + 1)
             result == write_with_conflict_check(exists, action)
         IN With(IF exists THEN Append(asked, [filename |-> <<filename>>, action |-> action])
                 ELSE asked,
                 LAMBDA asked2 :
                    IF result = "Aborted" THEN [out |-> out, asked |-> asked2, aborted |-> TRUE]
                    ELSE With(IF result = "Written"
                              THEN [out EXCEPT !.diffs = MapPut(@, filename, Head(diff_data).bytes)]
                              ELSE out,
                              LAMBDA out2 : WriteDiffs(Tail(diff_data), out2, answers, asked2)))

\* write_folder from the point where the manifest b is built: index.json,
\* then the patch files; <<>> as filename stands for index.json
WriteManifest(b, out, answers) ==
    LET exists == out.index # <<>>
        asked == IF exists THEN <<[filename |-> <<>>, action |-> Answer(answers, 1)]>>
                 ELSE <<>>
        result == write_with_conflict_check(exists, Answer(answers, 1))
    IN With(IF result = "Aborted" THEN [out |-> out, asked |-> asked, aborted |-> TRUE]
            ELSE WriteDiffs(b.diff_data,
                            IF result = "Written"
                            THEN [out EXCEPT !.index = <<ToJson(b.manifest)>>] ELSE out,
                            answers, asked),
            LAMBDA w :
               [ok |-> TRUE, err |-> "", nodes |-> Len(b.manifest.files),
                edges |-> Len(b.manifest.diffs), aborted |-> w.aborted, out |-> w.out,
                asked |-> w.asked, manifest |-> <<b.manifest>>, diff_data |-> b.diff_data])

\* exchange::write_folder
write_folder(out, g, rows, erows, dir, component_hash, answers) ==
    IF component_hash # <<>> /\ graph_get_node_by_hash(g, component_hash[1]) = 0
    THEN [ok |-> FALSE, err |-> "Export", nodes |-> 0, edges |-> 0, aborted |-> FALSE,
          out |-> out, asked |-> <<>>, manifest |-> <<>>, diff_data |-> <<>>]
    ELSE With(BuildManifest(g, rows, erows, dir, component_hash),
              LAMBDA b : WriteManifest(b, out, answers))

\* StorageManager::export.  The result carries the counts, the manifest that
\* was built, the patch files to write in writing order, and the calls of
\* on_conflict.
Export(component_hash, answers) ==
    /\ running
    /\ \E r \in {write_folder(output, TheGraph, nodes, edges, diffs, component_hash, answers)} :
          /\ output' = r.out
          /\ last' = [op |-> "export",
                      res |-> IF ~r.ok THEN r.err ELSE IF r.aborted THEN "aborted" ELSE "ok",
                      ha |-> IF component_hash = <<>> THEN <<>> ELSE component_hash[1],
                      hb |-> <<>>, n1 |-> r.nodes, n2 |-> r.edges,
                      out |-> [manifest |-> r.manifest, diff_data |-> r.diff_data],
                      applied |-> r.asked]
    /\ UNCHANGED <<store, database, running>>

----------------------------------------------------------------------------
(* Exchange: the two phases of an import *)

\* Option<String>::as_deref().unwrap_or("")
unwrap_or_empty(opt) == IF opt = None THEN "" ELSE opt

\* tags.join(", ")
RECURSIVE JoinTags(_)
JoinTags(tags) ==
    IF tags = <<>> THEN ""
    ELSE IF Len(tags) = 1 THEN Head(tags)
    ELSE Head(tags) \o ", " \o JoinTags(Tail(tags))

FieldDiff(field, local_value, import_value) ==
    [field |-> field, local_value |-> local_value, import_value |-> import_value]

\* a compare_field that finds no difference
compare_field_never(found, field, local, import) == found

\* compare_field
compare_field(found, field, local, import) ==
    IF local # import THEN Append(found, FieldDiff(field, local, import)) ELSE found

\* compare_optional
compare_optional(found, field, local, import) ==
    LET local_str == unwrap_or_empty(local)
        import_str == unwrap_or_empty(import)
    IN IF local_str # import_str THEN Append(found, FieldDiff(field, local_str, import_str))
       ELSE found

\* analyze_import: the field comparisons for one node that exists locally
NodeDiffs(local_row, import_node) ==
    LET d1 == compare_field(<<>>, "title", local_row.title, import_node.title)
        d2 == compare_optional(d1, "version", local_row.version, import_node.version)
        d3 == compare_optional(d2, "source_url", local_row.source_url, import_node.source_url)
        d4 == compare_optional(d3, "release_date", local_row.release_date,
                               import_node.release_date)
        d5 == compare_optional(d4, "description", local_row.description,
                               import_node.description)
        local_tags == JoinTags(TagsFromColumn(local_row.tags))
        import_tags == JoinTags(import_node.tags)
    IN IF local_tags # import_tags
       THEN Append(d5, FieldDiff("tags", local_tags, import_tags))
       ELSE d5

\* analyze_import: the loop over manifest.files
RECURSIVE AnalyzeNodes(_, _, _)
AnalyzeNodes(files, rows, conflicts) ==
    IF files = <<>> THEN [ok |-> TRUE, err |-> "", conflicts |-> conflicts]
    ELSE LET import_node == Head(files)
             hash == parse_hash(import_node.sha256)
             local == get_node_by_hash(rows, hash)
         IN IF hash = NoBytes THEN [ok |-> FALSE, err |-> "Import", conflicts |-> <<>>]
            ELSE IF local = {} THEN AnalyzeNodes(Tail(files), rows, conflicts)
            ELSE With(NodeDiffs(CHOOSE r \in local : TRUE, import_node), LAMBDA found :
                    AnalyzeNodes(Tail(files), rows,
                                 IF found # <<>>
                                 THEN Append(conflicts, [sha256 |-> import_node.sha256,
                                                         title |-> import_node.title,
                                                         diffs |-> found])
                                 ELSE conflicts))

\* an analyze_import that does not look at the revision of the manifest
analyze_import_any_revision(folder, rows) ==
    IF folder.index = <<>>
    THEN [ok |-> FALSE, err |-> "Import", manifest |-> <<>>, conflicts |-> <<>>]
    ELSE With(AnalyzeNodes(FromJson(folder.index[1]).files, rows, <<>>), LAMBDA r :
            [ok |-> r.ok, err |-> r.err,
             manifest |-> IF r.ok THEN <<FromJson(folder.index[1])>> ELSE <<>>,
             conflicts |-> r.conflicts])

\* exchange::analyze_import; an index.json that cannot be read, a manifest
\* of another revision and a hash that does not parse end it with Err
analyze_import(folder, rows) ==
    IF folder.index = <<>>
    THEN [ok |-> FALSE, err |-> "Import", manifest |-> <<>>, conflicts |-> <<>>]
    ELSE IF FromJson(folder.index[1]).dromos_export.data_revision # DATA_REVISION
    THEN [ok |-> FALSE, err |-> "Import", manifest |-> <<>>, conflicts |-> <<>>]
    ELSE With(AnalyzeNodes(FromJson(folder.index[1]).files, rows, <<>>), LAMBDA r :
            [ok |-> r.ok, err |-> r.err,
             manifest |-> IF r.ok THEN <<FromJson(folder.index[1])>> ELSE <<>>,
             conflicts |-> r.conflicts])

\* what an import step reports next to its result: the revision index.json
\* names (NoRevision without index.json), the conflicts, the overwrite flag
ImportReport(folder, conflicts, overwrite) ==
    <<[data_revision |-> IF folder.index = <<>> THEN NoRevision
                         ELSE FromJson(folder.index[1]).dromos_export.data_revision,
       conflicts |-> conflicts, overwrite |-> overwrite]>>

\* StorageManager::analyze_import
AnalyzeImport(folder) ==
    /\ running
    /\ \E a \in {analyze_import(folder, nodes)} :
          last' = Returned("analyze_import", IF a.ok THEN "ok" ELSE a.err, <<>>, <<>>,
                           Len(a.conflicts), 0, <<>>,
                           ImportReport(folder, a.conflicts, FALSE))
    /\ UNCHANGED <<store, database, output, running>>
    /\ Counted

\* cmd_import: analyze, ask whether to overwrite when there are conflicts
\* (answer), then execute with the manifest that analyze returned
CmdImport(input, answer) ==
    /\ running
    /\ \E a \in {analyze_import(input, nodes)} :
          IF ~a.ok
          THEN /\ last' = Returned("import", a.err, <<>>, <<>>, 0, 0, <<0, 0, 0, 0>>,
                                   ImportReport(input, <<>>, FALSE))
               /\ UNCHANGED store
          ELSE \E overwrite \in {a.conflicts # <<>> /\ answer} :
               \E st \in {execute_import([manifest |-> a.manifest[1], diffs |-> input.diffs],
                                          overwrite, nodes, edges, TheGraph, diffs)} :
                  /\ nodes' = st.rows
                  /\ edges' = st.erows
                  /\ SetGraph(st.g)
                  /\ diffs' = st.dir
                  /\ last' = Returned("import", IF st.err = "" THEN "ok" ELSE st.err,
                                      <<>>, <<>>, st.nodes_added, st.edges_added,
                                      <<st.nodes_skipped, st.nodes_overwritten,
                                        st.edges_skipped, st.diffs_copied>>,
                                      ImportReport(input, a.conflicts, overwrite))
    /\ UNCHANGED <<database, output, running>>
    /\ Counted

----------------------------------------------------------------------------
(* The NES header in its 16 bytes *)

NesMagic16 == <<78, 69, 83, 26>>

\* parse_nes_header_bytes on the 16 bytes of a header: <<>> (None) on a bad
\* magic, else <<NesHeader>>; header[i + 1] is the source's header[i]
parse_nes_header_bytes16(header) ==
    IF SubSeq(header, 1, 4) # NesMagic16 THEN <<>>
    ELSE LET flags6 == header[7]
             flags7 == header[8]
             flags8 == header[9]
             is_nes2 == ((flags7 \div 4) % 4) = 2
             mapper_lo == flags6 \div 16
             mapper_hi == (flags7 \div 16) * 16
             sub == (flags8 \div 16) % 16
         IN <<[prg_rom_size |-> header[5] * 16 * 1024,
               chr_rom_size |-> header[6] * 8 * 1024,
               has_trainer |-> ((flags6 \div 4) % 2) = 1,
               mapper |-> mapper_hi + mapper_lo
                          + (IF is_nes2 THEN (flags8 % 16) * 256 ELSE 0),
               mirroring |-> IF ((flags6 \div 8) % 2) = 1 THEN "FourScreen"
                             ELSE IF (flags6 % 2) = 1 THEN "Vertical"
                             ELSE "Horizontal",
               has_battery |-> ((flags6 \div 2) % 2) = 1,
               is_nes2 |-> is_nes2,
               submapper |-> IF is_nes2 /\ sub > 0 THEN <<sub>> ELSE <<>>]>>

\* a build_nes_header that leaves byte 8 zero
build_nes_header_no_byte8(header) ==
    NesMagic16
    \o <<(header.prg_rom_size \div (16 * 1024)) % 256,
         (header.chr_rom_size \div (8 * 1024)) % 256,
         (((header.mapper % 16) * 16) % 256)
            + (IF header.mirroring = "Vertical" THEN 1
               ELSE IF header.mirroring = "FourScreen" THEN 8 ELSE 0)
            + (IF header.has_battery THEN 2 ELSE 0),
         ((header.mapper \div 16) % 16) * 16 + (IF header.is_nes2 THEN 8 ELSE 0),
         0>>
    \o <<0, 0, 0, 0, 0, 0, 0>>

\* build_nes_header: the 16 bytes; the casts to u8 keep the low eight bits
build_nes_header(header) ==
    NesMagic16
    \o <<(header.prg_rom_size \div (16 * 1024)) % 256,
         (header.chr_rom_size \div (8 * 1024)) % 256,
         (((header.mapper % 16) * 16) % 256)
            + (IF header.mirroring = "Vertical" THEN 1
               ELSE IF header.mirroring = "FourScreen" THEN 8 ELSE 0)
            + (IF header.has_battery THEN 2 ELSE 0),
         ((header.mapper \div 16) % 16) * 16 + (IF header.is_nes2 THEN 8 ELSE 0),
         IF header.is_nes2
         THEN ((header.mapper \div 256) % 16)
              + ((((IF header.submapper = <<>> THEN 0 ELSE header.submapper[1]) % 16) * 16) % 256)
         ELSE 0>>
    \o <<0, 0, 0, 0, 0, 0, 0>>

\* parse_nes_header_bytes of the header bytes that were read (first parse)
\* or that build_nes_header returned (second parse, which keeps the
\* descriptor the bytes were built from)
ParseHeader ==
    /\ last.op \in {"read_header", "build_nes_header"}
    /\ last' = Returned("parse_nes_header_bytes",
                        IF parse_nes_header_bytes16(last.out) = <<>> THEN "None" ELSE "Some",
                        <<>>, <<>>, IF last.op = "read_header" THEN 1 ELSE 2, 0,
                        parse_nes_header_bytes16(last.out), last.applied)
    /\ UNCHANGED <<store, database, output, running, ops>>

\* build_nes_header of the descriptor the first parse returned
BuildHeader ==
    /\ last.op = "parse_nes_header_bytes" /\ last.n1 = 1 /\ last.out # <<>>
    /\ last' = Returned("build_nes_header", "ok", <<>>, <<>>, 0, 0,
                        build_nes_header(last.out[1]), last.out)
    /\ UNCHANGED <<store, database, output, running, ops>>

----------------------------------------------------------------------------
(* Specifications *)

\* a new store: StorageManager::open on an empty data directory
Init ==
    /\ nodes = {}
    /\ edges = {}
    /\ gnodes = <<>>
    /\ gfree = <<>>
    /\ gedges = <<>>
    /\ hash_to_node = EmptyMap
    /\ db_id_to_node = EmptyMap
    /\ diffs = EmptyMap
    /\ db_exists = TRUE
    /\ data_revision = DATA_REVISION
    /\ nodes_table = TRUE
    /\ output = EmptyFolder
    /\ running = TRUE
    /\ ops = 0
    /\ last = Returned("open", "ok", <<>>, <<>>, 0, 0, <<>>, <<>>)

\* StorageManager::open on a data directory that holds the three plain ROMs,
\* not linked yet
InitLinked ==
    /\ nodes = {NewNodeRow({[id |-> Len(b) - 1]}, hash_rom_file(PlainFile(b)), MetaA) : b \in Bodies}
    /\ edges = {}
    /\ gnodes = load_graph_from_db(nodes, edges).nodes
    /\ gfree = load_graph_from_db(nodes, edges).free
    /\ gedges = load_graph_from_db(nodes, edges).edges
    /\ hash_to_node = load_graph_from_db(nodes, edges).by_hash
    /\ db_id_to_node = load_graph_from_db(nodes, edges).by_id
    /\ diffs = EmptyMap
    /\ db_exists = TRUE
    /\ data_revision = DATA_REVISION
    /\ nodes_table = TRUE
    /\ output = EmptyFolder
    /\ running = TRUE
    /\ ops = 0
    /\ last = Returned("open", "ok", <<>>, <<>>, 0, 0, <<>>, <<>>)

\* Import folders: index.json (files, diffs) and the patch files of diffs/
ExportNodeOf(b, m) ==
    [sha256 |-> format_hash(hash_bytes(b)), filename |-> FileNames[Len(b)],
     rom_type |-> "NES", source_file_header |-> <<Base64Encode(<<NesMagic, 0>>)>>,
     title |-> m.title, source_url |-> m.source_url, version |-> m.version,
     release_date |-> m.release_date, tags |-> m.tags, description |-> m.description]

ExportEdgeOf(bs, bt) ==
    [source_sha256 |-> format_hash(hash_bytes(bs)),
     target_sha256 |-> format_hash(hash_bytes(bt)),
     diff_path |-> DiffFilename(hash_bytes(bs), hash_bytes(bt)),
     diff_size |-> PatchLen(BsdiffPatch(bs, bt)),
     sha256 |-> PatchChecksum(BsdiffPatch(bs, bt))]

PatchFileOf(bs, bt) == DiffFilename(hash_bytes(bs), hash_bytes(bt)) :> BsdiffPatch(bs, bt)

\* an exchange folder: index.json holding the manifest, and diffs/
ExchangeFolder(manifest, patch_files) ==
    [index |-> <<ToJson(manifest)>>, manifest |-> manifest, diffs |-> patch_files]

\* a complete export of x and y linked both ways
FolderPair(x, y) ==
    ExchangeFolder([dromos_export |-> ExportHeaderNow,
                    files |-> <<ExportNodeOf(x, MetaB), ExportNodeOf(y, MetaB)>>,
                    diffs |-> <<ExportEdgeOf(x, y), ExportEdgeOf(y, x)>>],
                   PatchFileOf(x, y) @@ PatchFileOf(y, x))

\* the same folder with the patch file x -> y gone
FolderMissing(x, y) == [FolderPair(x, y) EXCEPT !.diffs = PatchFileOf(y, x)]

\* the same folder with other bytes in the patch file y -> x
FolderCorrupt(x, y) ==
    [FolderPair(x, y) EXCEPT
        !.diffs = PatchFileOf(x, y) @@ (DiffFilename(hash_bytes(y), hash_bytes(x)) :> BsdiffPatch(y, y))]

\* a manifest of x and y with the edge x -> y alone
FolderOneWay(x, y) ==
    ExchangeFolder([dromos_export |-> ExportHeaderNow,
                    files |-> <<ExportNodeOf(x, MetaB), ExportNodeOf(y, MetaB)>>,
                    diffs |-> <<ExportEdgeOf(x, y)>>],
                   PatchFileOf(x, y))

\* a manifest of x with the edge x -> y, y not among its files
FolderDangling(x, y) ==
    ExchangeFolder([dromos_export |-> ExportHeaderNow,
                    files |-> <<ExportNodeOf(x, MetaB)>>, diffs |-> <<ExportEdgeOf(x, y)>>],
                   PatchFileOf(x, y))

\* a manifest whose second node has a hash that does not parse
FolderBadHash(x, y) ==
    ExchangeFolder([dromos_export |-> ExportHeaderNow,
                    files |-> <<ExportNodeOf(x, MetaB),
                                [ExportNodeOf(y, MetaB) EXCEPT !.sha256 = <<16>>]>>,
                    diffs |-> <<>>],
                   EmptyMap)

\* the folder with other bytes in the patch file y -> x, written by an
\* export that left the checksums empty
FolderUnchecked(x, y) ==
    ExchangeFolder([FolderCorrupt(x, y).manifest EXCEPT
                        !.diffs = <<[ExportEdgeOf(x, y) EXCEPT !.sha256 = <<>>],
                                    [ExportEdgeOf(y, x) EXCEPT !.sha256 = <<>>]>>],
                   FolderCorrupt(x, y).diffs)

Folders ==
    {FolderPair(<<1>>, <<2, 2>>), FolderMissing(<<1>>, <<2, 2>>),
     FolderCorrupt(<<1>>, <<2, 2>>), FolderOneWay(<<1>>, <<2, 2>>),
     FolderDangling(<<1>>, <<2, 2>>), FolderBadHash(<<1>>, <<2, 2>>),
     FolderPair(<<2, 2>>, <<3, 3, 3>>)}

\* the patch file names the model can have in diffs/
DiffNames == {DiffFilename(a, b) : a \in Hashes, b \in Hashes}

\* add, link, remove and build; no import, no I/O failures, no restart
NextCore ==
    \/ \E f \in ValidFiles : ops < MaxOps /\ AddNode(f, MetaOf(f))
    \/ \E fa \in ValidFiles, fb \in ValidFiles : ops < MaxOps /\ LinkNodes(fa, fb)
    \/ \E h \in Hashes : ops < MaxOps /\ RemoveNode(h, {})
    \/ \E f \in ValidFiles, h \in Hashes : BuildRom(f, h)

SpecCore == Init /\ [][NextCore]_vars

\* link, remove and build on the three stored ROMs
NextLinked ==
    \/ \E fa \in ValidFiles, fb \in ValidFiles : ops < MaxLinkOps /\ LinkNodes(fa, fb)
    \/ \E h \in Hashes : ops < MaxLinkOps /\ RemoveNode(h, {})
    \/ \E f \in ValidFiles, h \in Hashes : BuildRom(f, h)

SpecLinked == InitLinked /\ [][NextLinked]_vars

\* add and link, the link one persistent effect at a time; the process can
\* end at any point, also inside a link, and the data directory be opened again
MaxStepOps == 7

SpecSteps ==
    Init /\ [][ \/ \E f \in ValidFiles :
                       /\ ops < MaxStepOps
                       /\ ~(last.op = "link_nodes" /\ last.res = "running")
                       /\ AddNode(f, MetaOf(f))
                \/ \E fa \in ValidFiles, fb \in ValidFiles :
                       ops < MaxStepOps /\ LinkNodesStep(fa, fb)
                \/ ops < MaxStepOps /\ Close /\ Counted
                \/ ops < MaxStepOps /\ Open({}) /\ Counted ]_vars

\* every operation, with files that do not parse, patch files that cannot be
\* deleted, import folders, and the restart after a panic
Next ==
    \/ \E f \in RomFiles : ops < MaxAllOps /\ AddNode(f, MetaOf(f))
    \/ \E fa \in RomFiles, fb \in {PlainFile(b) : b \in Bodies} :
           ops < MaxAllOps /\ LinkNodes(fa, fb)
    \/ \E h \in Hashes, undeletable \in {{}, DiffNames} :
           ops < MaxAllOps /\ RemoveNode(h, undeletable)
    \/ \E h \in Hashes : ops < MaxAllOps /\ UpdateNodeMetadata(h, MetaB)
    \/ \E folder \in Folders, overwrite \in BOOLEAN :
           ops < MaxAllOps /\ ExecuteImport(folder, overwrite)
    \/ ops < MaxAllOps /\ Open({}) /\ Counted
    \/ \E f \in {PlainFile(<<1>>), BadMagicFile(<<1>>)}, h \in Hashes : BuildRom(f, h)

Spec == Init /\ [][Next]_vars

\* Data directories as an earlier run of this or of another version of the
\* program left them: no database file; a database without a nodes table;
\* a database that holds nothing or the two ROMs <<1>> and <<2, 2>> linked
\* both ways; each with the stored revision unreadable, older, current or
\* newer; diffs/ may hold a file that no edge row names.
StoredRevisions == {NoRevision} \cup (0 .. DATA_REVISION + 1)

DiskRows ==
    {NewNodeRow({[id |-> Len(b) - 1]}, hash_rom_file(PlainFile(b)), MetaA) :
        b \in {<<1>>, <<2, 2>>}}

DiskEdges ==
    LET ab == DiffFilename(hash_bytes(<<1>>), hash_bytes(<<2, 2>>))
        ba == DiffFilename(hash_bytes(<<2, 2>>), hash_bytes(<<1>>))
        first == insert_edge({}, 1, 2, ab, PatchLen(BsdiffPatch(<<1>>, <<2, 2>>)))
    IN insert_edge(first.rows, 2, 1, ba, PatchLen(BsdiffPatch(<<2, 2>>, <<1>>))).rows

DiskDiffs == PatchFileOf(<<1>>, <<2, 2>>) @@ PatchFileOf(<<2, 2>>, <<1>>)

StrayDiffs == PatchFileOf(<<3, 3, 3>>, <<1>>)

Disks ==
    {[db_exists |-> FALSE, data_revision |-> NoRevision, nodes_table |-> FALSE,
      nodes |-> {}, edges |-> {}, diffs |-> d] : d \in {EmptyMap, StrayDiffs}}
    \cup {[db_exists |-> TRUE, data_revision |-> r, nodes_table |-> FALSE,
           nodes |-> {}, edges |-> {}, diffs |-> d] :
              r \in StoredRevisions, d \in {EmptyMap, StrayDiffs}}
    \cup {[db_exists |-> TRUE, data_revision |-> r, nodes_table |-> TRUE,
           nodes |-> {}, edges |-> {}, diffs |-> d] :
              r \in StoredRevisions, d \in {EmptyMap, StrayDiffs}}
    \cup {[db_exists |-> TRUE, data_revision |-> r, nodes_table |-> TRUE,
           nodes |-> DiskRows, edges |-> DiskEdges, diffs |-> d] :
              r \in StoredRevisions, d \in {DiskDiffs, DiskDiffs @@ StrayDiffs}}

\* no process yet, a data directory on disk
InitOpen ==
    /\ \E d \in Disks :
           /\ db_exists = d.db_exists
           /\ data_revision = d.data_revision
           /\ nodes_table = d.nodes_table
           /\ nodes = d.nodes
           /\ edges = d.edges
           /\ diffs = d.diffs
    /\ gnodes = <<>>
    /\ gfree = <<>>
    /\ gedges = <<>>
    /\ hash_to_node = EmptyMap
    /\ db_id_to_node = EmptyMap
    /\ output = EmptyFolder
    /\ running = FALSE
    /\ ops = 0
    /\ last = Returned("close", "ok", <<>>, <<>>, 0, 0, <<>>, <<>>)

\* open and close around the public mutations
NextOpen ==
    \/ \E undeletable \in {{}, DiffNames} : Open(undeletable) /\ UNCHANGED ops
    \/ Close /\ UNCHANGED ops
    \/ \E f \in ValidFiles : ops < MaxOpenOps /\ AddNode(f, MetaOf(f))
    \/ \E fa \in ValidFiles, fb \in ValidFiles : ops < MaxOpenOps /\ LinkNodes(fa, fb)
    \/ \E h \in Hashes : ops < MaxOpenOps /\ RemoveNode(h, {})
    \/ \E h \in Hashes : ops < MaxOpenOps /\ UpdateNodeMetadata(h, MetaB)
    \/ \E folder \in Folders, overwrite \in BOOLEAN :
           ops < MaxOpenOps /\ ExecuteImport(folder, overwrite)

SpecOpen == InitOpen /\ [][NextOpen]_vars

\* the budget of the behaviours that export: links, removals, imports and
\* exports together
MaxImportOps == 2
MaxExportOps == 2

\* what on_conflict answers to its first, second and later calls
AnswerSeqs == [1..3 -> OverwriteActions]

\* an output folder that an earlier export of other data has filled
UsedFolder ==
    [index |-> FolderCorrupt(<<1>>, <<2, 2>>).index, diffs |-> FolderCorrupt(<<1>>, <<2, 2>>).diffs]

\* three stored ROMs, and an output folder that is new or used
InitExport ==
    /\ nodes = {NewNodeRow({[id |-> Len(b) - 1]}, hash_rom_file(PlainFile(b)), MetaA) : b \in Bodies}
    /\ edges = {}
    /\ gnodes = load_graph_from_db(nodes, edges).nodes
    /\ gfree = load_graph_from_db(nodes, edges).free
    /\ gedges = load_graph_from_db(nodes, edges).edges
    /\ hash_to_node = load_graph_from_db(nodes, edges).by_hash
    /\ db_id_to_node = load_graph_from_db(nodes, edges).by_id
    /\ diffs = EmptyMap
    /\ db_exists = TRUE
    /\ data_revision = DATA_REVISION
    /\ nodes_table = TRUE
    /\ output \in {EmptyFolder, UsedFolder}
    /\ running = TRUE
    /\ ops = 0
    /\ last = Returned("open", "ok", <<>>, <<>>, 0, 0, <<>>, <<>>)

\* export between links, removals and one-way imports
NextExport ==
    \/ \E fa \in {PlainFile(b) : b \in Bodies}, fb \in {PlainFile(b) : b \in Bodies} :
           ops < MaxExportOps /\ LinkNodes(fa, fb)
    \/ \E h \in Hashes, undeletable \in {{}, DiffNames} :
           ops < MaxExportOps /\ RemoveNode(h, undeletable)
    \/ \E x \in Bodies, y \in Bodies :
           ops < MaxExportOps /\ x # y /\ ExecuteImport(FolderOneWay(x, y), FALSE)
    \/ \E component_hash \in {<<>>} \cup {<<h>> : h \in Hashes}, answers \in AnswerSeqs :
           ops < MaxExportOps /\ Export(component_hash, answers) /\ ops' = ops + 1

SpecExport == InitExport /\ [][NextExport]_vars

\* the two phases of an import against stores with other metadata
MetaJoined == [MetaA EXCEPT !.tags = <<"a, b">>]
LocalMetas == {MetaA, MetaB, MetaJoined}

\* the metadata of a manifest node: MetaA, MetaB, MetaA with empty strings
\* for absent fields, MetaA with two tags, MetaA with one field changed
ManifestMetas ==
    {MetaA, MetaB,
     [MetaA EXCEPT !.version = "", !.description = ""],
     [MetaA EXCEPT !.tags = <<"a", "b">>],
     [MetaA EXCEPT !.title = "Alfa"], [MetaA EXCEPT !.version = "1.1"],
     [MetaA EXCEPT !.source_url = "url"], [MetaA EXCEPT !.release_date = "2024-01-15"],
     [MetaA EXCEPT !.description = "d"], [MetaA EXCEPT !.tags = <<"hack">>]}

\* a manifest of the single node x with metadata m
FolderMeta(x, m) ==
    ExchangeFolder([dromos_export |-> ExportHeaderNow,
                    files |-> <<ExportNodeOf(x, m)>>, diffs |-> <<>>],
                   EmptyMap)

\* the export of x and y written by a build of revision rev
FolderRevision(x, y, rev) ==
    ExchangeFolder([FolderPair(x, y).manifest EXCEPT !.dromos_export.data_revision = rev],
                   FolderPair(x, y).diffs)

\* a folder without index.json
FolderNoIndex(x, y) == [FolderPair(x, y) EXCEPT !.index = <<>>]

AnalyzeFolders ==
    {FolderPair(<<1>>, <<2, 2>>), FolderBadHash(<<1>>, <<2, 2>>), FolderNoIndex(<<1>>, <<2, 2>>),
     FolderRevision(<<1>>, <<2, 2>>, DATA_REVISION + 1),
     FolderRevision(<<1>>, <<2, 2>>, DATA_REVISION - 1)}
    \cup {FolderMeta(<<1>>, m) : m \in ManifestMetas}

NextImport ==
    \/ \E b \in {<<1>>, <<2, 2>>}, m \in LocalMetas :
           ops < MaxImportOps /\ AddNode(PlainFile(b), m)
    \/ \E folder \in AnalyzeFolders : ops <= MaxImportOps /\ AnalyzeImport(folder)
    \/ \E input \in AnalyzeFolders, answer \in BOOLEAN :
           ops < MaxImportOps /\ CmdImport(input, answer)

SpecImport == Init /\ [][NextImport]_vars

\* header bytes as files have them: PRG and CHR sizes, every low nibble of
\* flags6 under three mapper nibbles, iNES and NES 2.0 forms of flags7,
\* extended mapper and submapper in byte 8, zero or set bytes behind, and a
\* wrong magic
NesHeaders ==
    {magic \o <<prg, chr, mapper_lo * 16 + low, flags7, flags8>> \o [i \in 1..7 |-> pad] :
        magic \in {NesMagic16, <<78, 69, 83, 0>>},
        prg \in {0, 2, 255}, chr \in {0, 1},
        mapper_lo \in {0, 1, 15}, low \in 0..15,
        flags7 \in {0, 4, 8, 12, 240, 248}, flags8 \in {0, 15, 16, 245},
        pad \in {0, 255}}

InitHeader ==
    /\ nodes = {}
    /\ edges = {}
    /\ gnodes = <<>>
    /\ gfree = <<>>
    /\ gedges = <<>>
    /\ hash_to_node = EmptyMap
    /\ db_id_to_node = EmptyMap
    /\ diffs = EmptyMap
    /\ db_exists = FALSE
    /\ data_revision = NoRevision
    /\ nodes_table = FALSE
    /\ output = EmptyFolder
    /\ running = FALSE
    /\ ops = 0
    /\ \E header \in NesHeaders :
          last = Returned("read_header", "ok", <<>>, <<>>, 0, 0, header, <<>>)

NextHeader ==
    \/ ParseHeader
    \/ BuildHeader

SpecHeader == InitHeader /\ [][NextHeader]_vars

\* A RomGraph of four nodes to which edges are added one at a time, at most
\* one per ordered pair, and on which find_path is asked for the path from
\* the first node to the last
MaxPathEdges == 4

InitPaths ==
    /\ nodes = {}
    /\ edges = {}
    /\ \E g \in {LoadNodes(EmptyGraph,
                           [i \in 1..4 |->
                               [id |-> i, sha256 |-> hash_bytes([j \in 1..i |-> i]),
                                filename |-> "rom", title |-> "Alpha", version |-> None]])} :
          /\ gnodes = g.nodes
          /\ gfree = g.free
          /\ gedges = g.edges
          /\ hash_to_node = g.by_hash
          /\ db_id_to_node = g.by_id
    /\ diffs = EmptyMap
    /\ db_exists = FALSE
    /\ data_revision = NoRevision
    /\ nodes_table = FALSE
    /\ output = EmptyFolder
    /\ running = TRUE
    /\ ops = 0
    /\ last = Returned("new", "ok", <<>>, <<>>, 0, 0, <<>>, <<>>)

SpecPaths ==
    InitPaths
    /\ [][ \/ \E s \in DOMAIN gnodes, t \in DOMAIN gnodes :
                  /\ ops < MaxPathEdges
                  /\ s # t
                  /\ \A k \in DOMAIN gedges : ~(gedges[k].src = s /\ gedges[k].tgt = t)
                  /\ SetGraph(graph_add_edge(TheGraph, s, t,
                                  DiffEdge(ops + 1,
                                           DiffFilename(gnodes[s].sha256, gnodes[t].sha256), 1)))
                  /\ ops' = ops + 1
                  /\ last' = Returned("add_edge", "ok", s, t, 0, 0, <<>>, <<>>)
                  /\ UNCHANGED <<nodes, edges, diffs, database, output, running>>
           \/ \E path \in {graph_find_path(TheGraph, 1, Len(gnodes))} :
                  /\ last' = Returned("find_path", IF path = <<>> THEN "none" ELSE "ok",
                                      1, Len(gnodes), 0, 0, path, <<>>)
                  /\ UNCHANGED <<store, database, output, running, ops>> ]_vars

----------------------------------------------------------------------------
(* The claims *)

\* what the graph and the repository hold, by hash
OccupiedSlots == {i \in 1..Len(gnodes) : gnodes[i] # Vacant}
GraphNodeHashes == {gnodes[i].sha256 : i \in OccupiedSlots}
RepoNodeHashes == {r.sha256 : r \in nodes}
HashOfId(id) == (CHOOSE r \in nodes : r.id = id).sha256
GraphEdgePairs == {<<gnodes[gedges[k].src].sha256, gnodes[gedges[k].tgt].sha256>> : k \in DOMAIN gedges}
RepoEdgePairs == {<<HashOfId(e.source_id), HashOfId(e.target_id)>> : e \in edges}

\* the body whose digest is h
BodyOf(h) == CHOOSE b \in Bodies : hash_bytes(b) = h

\* the row of hash h before the step, and the rows between two nodes
RowOf(h) == CHOOSE r \in nodes : r.sha256 = h
HasRow(h) == \E r \in nodes : r.sha256 = h
RowsFromTo(erows, h1, h2) ==
    {e \in erows : e.source_id = RowOf(h1).id /\ e.target_id = RowOf(h2).id}

\* C1: after any sequence of add_node, link_nodes, remove_node,
\* update_node_metadata and execute_import calls, failed ones included, the
\* graph's node hashes are the repository's node rows and the graph's directed
\* edges (source hash, target hash) are the repository's edge rows.
C1_GraphEqualsRepository ==
    /\ GraphNodeHashes = RepoNodeHashes
    /\ GraphEdgePairs = RepoEdgePairs

\* C2: a link_nodes call that returns an error leaves the repository's edge
\* rows and the graph's edges as they were before the call.
C2_LinkAllOrNothing ==
    [][(last'.op = "link_nodes" /\ last'.res \notin {"ok", "panic"})
        => (edges' = edges /\ gedges' = gedges)]_vars

\* C3: after every add, link, remove and import, successful or failed, every
\* edge row of the repository has the patch file its diff_path names in diffs/.
C3_EdgeMaterialization == \A e \in edges : e.diff_path \in DOMAIN diffs

\* C4: no two node rows and no two graph nodes have the same sha256, and
\* add_node of a file whose body hash has a row returns RomAlreadyExists and
\* changes nothing, whatever the file's name, header or the metadata given.
UniqueHashes ==
    /\ \A r1 \in nodes, r2 \in nodes : r1.sha256 = r2.sha256 => r1 = r2
    /\ \A i \in OccupiedSlots, j \in OccupiedSlots :
           gnodes[i].sha256 = gnodes[j].sha256 => i = j
DuplicateAddRejected ==
    (last'.op = "add_node" /\ HasRow(last'.ha))
        => (last'.res = "RomAlreadyExists" /\ store' = store)
C4_HashIdentity == []UniqueHashes /\ [][DuplicateAddRejected]_vars

\* C4 witness: an add_node was rejected with RomAlreadyExists for a file whose
\* raw header, and so whose bytes, differ from those the node was added from.
C4_Witness ==
    /\ last.op = "add_node" /\ last.res = "RomAlreadyExists"
    /\ HasRow(last.ha)
    /\ RowOf(last.ha).source_file_header # last.out

\* C5: a successful link_nodes(A, B) on two distinct nodes inserts exactly the
\* two edge rows A->B and B->A, leaves in diffs/ the two patch files named by
\* the leading hex digits of source and target hash, appends both edges to the
\* graph, and returns the two patch sizes, which are the rows' diff_size.
LinkedBothWays ==
    (last'.op = "link_nodes" /\ last'.res = "ok")
        => LET ha == last'.ha
               hb == last'.hb
               name_ab == <<SubSeq(format_hash(ha), 1, PrefixLen), SubSeq(format_hash(hb), 1, PrefixLen)>>
               name_ba == <<SubSeq(format_hash(hb), 1, PrefixLen), SubSeq(format_hash(ha), 1, PrefixLen)>>
               n == Len(gedges)
           IN /\ ha # hb /\ HasRow(ha) /\ HasRow(hb)
              /\ RowsFromTo(edges, ha, hb) = {} /\ RowsFromTo(edges, hb, ha) = {}
              /\ nodes' = nodes
              /\ edges \subseteq edges' /\ Cardinality(edges' \ edges) = 2
              /\ \E e \in edges' \ edges :
                    /\ e.source_id = RowOf(ha).id /\ e.target_id = RowOf(hb).id
                    /\ e.diff_path = name_ab /\ e.diff_size = last'.n1
              /\ \E e \in edges' \ edges :
                    /\ e.source_id = RowOf(hb).id /\ e.target_id = RowOf(ha).id
                    /\ e.diff_path = name_ba /\ e.diff_size = last'.n2
              /\ {name_ab, name_ba} \subseteq DOMAIN diffs'
              /\ diffs'[name_ab] = BsdiffPatch(BodyOf(ha), BodyOf(hb))
              /\ diffs'[name_ba] = BsdiffPatch(BodyOf(hb), BodyOf(ha))
              /\ PatchLen(diffs'[name_ab]) = last'.n1 /\ PatchLen(diffs'[name_ba]) = last'.n2
              /\ Len(gedges') = n + 2 /\ SubSeq(gedges', 1, n) = gedges
              /\ gedges'[n + 1].src = hash_to_node[ha] /\ gedges'[n + 1].tgt = hash_to_node[hb]
              /\ gedges'[n + 1].w.diff_path = name_ab /\ gedges'[n + 1].w.diff_size = last'.n1
              /\ gedges'[n + 2].src = hash_to_node[hb] /\ gedges'[n + 2].tgt = hash_to_node[ha]
              /\ gedges'[n + 2].w.diff_path = name_ba /\ gedges'[n + 2].w.diff_size = last'.n2
C5_LinkCreatesBothEdges == [][LinkedBothWays]_vars

\* C5 witness: a link_nodes of two distinct nodes has returned Ok, and both
\* rows, both files and both graph edges are there.
C5_Witness ==
    /\ last.op = "link_nodes" /\ last.res = "ok" /\ last.ha # last.hb
    /\ RowsFromTo(edges, last.ha, last.hb) # {} /\ RowsFromTo(edges, last.hb, last.ha) # {}
    /\ DiffFilename(last.ha, last.hb) \in DOMAIN diffs
    /\ DiffFilename(last.hb, last.ha) \in DOMAIN diffs
    /\ Len(gedges) >= 2

\* C6: link(A, B) called when a link(A, B) has succeeded (both rows are there)
\* returns DiffAlreadyExists and leaves the files of diffs/, the edge rows and
\* the graph edges as they were.
SecondLinkRejected ==
    (/\ last'.op = "link_nodes" /\ last'.res # "panic"
     /\ HasRow(last'.ha) /\ HasRow(last'.hb)
     /\ RowsFromTo(edges, last'.ha, last'.hb) # {}
     /\ RowsFromTo(edges, last'.hb, last'.ha) # {})
        => /\ last'.res = "DiffAlreadyExists"
           /\ DOMAIN diffs' = DOMAIN diffs /\ diffs' = diffs
           /\ edges' = edges
           /\ gedges' = gedges
C6_SecondLinkRejected == [][SecondLinkRejected]_vars

\* C6 witness: link_nodes returned DiffAlreadyExists for two distinct nodes
\* that an earlier link_nodes had linked both ways.
C6_Witness ==
    /\ last.op = "link_nodes" /\ last.res = "DiffAlreadyExists" /\ last.ha # last.hb
    /\ RowsFromTo(edges, last.ha, last.hb) # {} /\ RowsFromTo(edges, last.hb, last.ha) # {}
    /\ \E k \in DOMAIN gedges : gedges[k].src = hash_to_node[last.ha]
                               /\ gedges[k].tgt = hash_to_node[last.hb]

\* C7: after a successful remove_node(h) the node is gone from the repository,
\* from the graph and from both indexes, every edge with h as source or target
\* is gone from both, and every other node row, edge row, graph node and graph
\* edge is as before and resolvable by hash and by db id.
RemoveFrame ==
    (last'.op = "remove_node" /\ last'.res = "ok")
        => LET h == last'.ha
               row == RowOf(h)
               idx == hash_to_node[h]
           IN /\ HasRow(h) /\ h \in DOMAIN hash_to_node
              /\ nodes' = nodes \ {row}
              /\ \A r \in nodes' : r.sha256 # h
              /\ edges' = {e \in edges : e.source_id # row.id /\ e.target_id # row.id}
              /\ h \notin DOMAIN hash_to_node'
              /\ row.id \notin DOMAIN db_id_to_node'
              /\ Len(gnodes') = Len(gnodes)
              /\ gnodes'[idx] = Vacant
              /\ \A i \in 1..Len(gnodes) : i # idx => gnodes'[i] = gnodes[i]
              /\ gedges' = SelectSeq(gedges, LAMBDA e : e.src # idx /\ e.tgt # idx)
              /\ \A k \in DOMAIN gedges' : gedges'[k].src # idx /\ gedges'[k].tgt # idx
              /\ \A r \in nodes' :
                    /\ r.sha256 \in DOMAIN hash_to_node'
                    /\ hash_to_node'[r.sha256] = hash_to_node[r.sha256]
                    /\ gnodes'[hash_to_node'[r.sha256]].db_id = r.id
                    /\ r.id \in DOMAIN db_id_to_node'
                    /\ db_id_to_node'[r.id] = db_id_to_node[r.id]
                    /\ gnodes'[db_id_to_node'[r.id]].sha256 = r.sha256
C7_RemoveFrame == [][RemoveFrame]_vars

\* C7 witness: remove_node has removed a node that had edges, and another
\* node's rows and edges are still there.
C7_Witness ==
    /\ last.op = "remove_node" /\ last.res = "ok" /\ last.n1 >= 2
    /\ ~HasRow(last.ha)
    /\ edges # {} /\ gedges # <<>>

\* C8: remove_node of a stored node always completes; edges_removed is the
\* number of edge rows incident to the node before the call,
\* diff_files_removed the number of patch files the call deleted, never more
\* than edges_removed, and both are 0 for a node without edges.
RemoveCounts ==
    (last'.op = "remove_node" /\ HasRow(last'.ha))
        => LET row == RowOf(last'.ha)
           IN /\ last'.res = "ok"
              /\ row \notin nodes'
              /\ get_edges_for_node(edges', row.id) = {}
              /\ last'.n1 = Cardinality({e \in edges : e.source_id = row.id \/ e.target_id = row.id})
              /\ last'.n2 = Cardinality((DOMAIN diffs) \ (DOMAIN diffs'))
              /\ DOMAIN diffs' \subseteq DOMAIN diffs
              /\ last'.n2 <= last'.n1
              /\ (last'.n1 = 0 => last'.n2 = 0)
C8_RemoveCounts == [][RemoveCounts]_vars

\* C8 witness: remove_node has completed for a node with two edge rows of
\* which it could delete fewer than two patch files.
C8_Witness ==
    /\ last.op = "remove_node" /\ last.res = "ok"
    /\ last.n1 = 2 /\ last.n2 < 2
    /\ ~HasRow(last.ha)

\* the hashes joined to h by graph edges, taken in either direction
RECURSIVE Grow(_)
Grow(S) ==
    LET T == S \cup {gedges[k].tgt : k \in {k \in DOMAIN gedges : gedges[k].src \in S}}
                \cup {gedges[k].src : k \in {k \in DOMAIN gedges : gedges[k].tgt \in S}}
    IN IF T = S THEN S ELSE Grow(T)
Component(h) ==
    IF h \in DOMAIN hash_to_node THEN {gnodes[i].sha256 : i \in Grow({hash_to_node[h]})} ELSE {}

RECURSIVE Distance(_, _, _, _)
Distance(frontier, seen, t, d) ==
    IF t \in frontier THEN d
    ELSE LET nxt == {gedges[k].tgt : k \in {k \in DOMAIN gedges : gedges[k].src \in frontier}} \ seen
         IN IF nxt = {} THEN -1 ELSE Distance(nxt, seen \cup nxt, t, d + 1)

\* C10: a successful build_rom reports as steps the number of edges of a
\* shortest directed path from source to target, its patches are those of the
\* edges of such a path, applied in path order, and a build with source and
\* target the same node succeeds with zero steps and the source's bytes.
C10_BuildFollowsShortestPath ==
    \A f \in ValidFiles, y \in Hashes :
        LET x == hash_rom_file(f).sha256
            result == build_rom(TheGraph, nodes, diffs, f, y)
            path == result.path
        IN /\ result.ok =>
                /\ result.steps = Distance({hash_to_node[x]}, {hash_to_node[x]}, hash_to_node[y], 0)
                /\ Len(path) = result.steps + 1
                /\ path[1].node_idx = hash_to_node[x]
                /\ path[Len(path)].node_idx = hash_to_node[y]
                /\ \A i \in 2..Len(path) :
                       /\ \E k \in DOMAIN gedges :
                              /\ gedges[k].src = path[i - 1].node_idx
                              /\ gedges[k].tgt = path[i].node_idx
                              /\ gedges[k].w = path[i].edge[1]
                       /\ diffs[path[i].edge[1].diff_path] =
                              BsdiffPatch(BodyOf(gnodes[path[i - 1].node_idx].sha256),
                                          BodyOf(gnodes[path[i].node_idx].sha256))
                /\ result.bytes = BodyOf(y)
           /\ (x = y /\ x \in DOMAIN hash_to_node) =>
                /\ result.ok /\ result.steps = 0
                /\ result.bytes = read_rom_bytes(f).bytes

\* C10 witness: a build has applied one patch where the graph also has a
\* path of two edges from the source to the target.
C10_Witness ==
    /\ last.op = "build_rom" /\ last.res = "ok" /\ last.n1 = 1 /\ Len(last.applied) = 1
    /\ \E k1 \in DOMAIN gedges, k2 \in DOMAIN gedges :
           /\ gedges[k1].src = hash_to_node[last.ha]
           /\ gedges[k1].tgt = gedges[k2].src
           /\ gedges[k2].tgt = hash_to_node[last.hb]
           /\ gedges[k2].src # hash_to_node[last.ha]

\* C11: build_rom changes neither the repository nor the graph nor diffs/; it
\* returns RomNotFound when the hash of the source file's body is not a node,
\* and NoPath when the source is a node and no directed path of graph edges
\* leads from it to the target.
BuildErrors ==
    \A f \in ValidFiles, y \in Hashes :
        LET x == hash_rom_file(f).sha256
            result == build_rom(TheGraph, nodes, diffs, f, y)
        IN /\ x \notin GraphNodeHashes => (~result.ok /\ result.err = "RomNotFound")
           /\ (/\ x \in GraphNodeHashes
               /\ \/ y \notin GraphNodeHashes
                  \/ Distance({hash_to_node[x]}, {hash_to_node[x]}, hash_to_node[y], 0) = -1)
                 => (~result.ok /\ result.err = "NoPath")
BuildReadOnly == last'.op = "build_rom" => (store' = store /\ running' = running)
C11_BuildReadOnlyAndErrors == []BuildErrors /\ [][BuildReadOnly]_vars

\* C11 witness: a build between two stored nodes that no path joins has
\* returned NoPath, with the rows, the graph and diffs/ still there.
C11_Witness ==
    /\ last.op = "build_rom" /\ last.res = "NoPath"
    /\ HasRow(last.ha) /\ HasRow(last.hb) /\ last.ha # last.hb
    /\ last.ha \in GraphNodeHashes /\ last.hb \in GraphNodeHashes

\* C12: when remove_node of B has returned, no path that find_path finds, and
\* no path build_rom follows, visits B or uses an edge that was incident to
\* B; where the links were exactly A<->B and B<->C, the build from A's file
\* to C took two steps before the removal and fails with NoPath after it.
RemovedUnreachable ==
    (last'.op = "remove_node" /\ last'.res = "ok") =>
        LET b == last'.ha
            bidx == graph_get_node_by_hash(TheGraph, b)
            incident == {gedges[k].w : k \in {j \in DOMAIN gedges :
                                              gedges[j].src = bidx \/ gedges[j].tgt = bidx}}
            Avoids(path) ==
                \A i \in DOMAIN path :
                    /\ path[i].node_idx # bidx
                    /\ gnodes'[path[i].node_idx].sha256 # b
                    /\ path[i].edge # <<>> => path[i].edge[1] \notin incident
        IN /\ bidx # 0
           /\ \A f \in ValidFiles, y \in Hashes :
                  LET x == hash_rom_file(f).sha256
                      before == build_rom(TheGraph, nodes, diffs, f, y)
                      after == build_rom(TheGraph', nodes', diffs', f, y)
                  IN /\ Avoids(find_path(TheGraph', x, y))
                     /\ after.ok => Avoids(after.path)
                     /\ (/\ x # b /\ y # b /\ x # y
                         /\ GraphEdgePairs = {<<x, b>>, <<b, x>>, <<b, y>>, <<y, b>>})
                        => /\ before.ok /\ before.steps = 2
                           /\ ~after.ok /\ after.err = "NoPath"
C12_RemovedNodeUnreachable == [][RemovedUnreachable]_vars

\* C12 witness: the middle node of a chain has just been removed with its
\* four edges, and the two ends, still stored, have no path between them.
C12_Witness ==
    /\ last.op = "remove_node" /\ last.res = "ok" /\ last.n1 = 4
    /\ Cardinality(nodes) = 2 /\ gedges = <<>>
    /\ \A f \in ValidFiles, y \in RepoNodeHashes :
           LET x == hash_rom_file(f).sha256
           IN (x \in RepoNodeHashes /\ x # y) =>
                  build_rom(TheGraph, nodes, diffs, f, y).err = "NoPath"

\* C13: open wipes exactly when the database file exists and the stored
\* revision is below DATA_REVISION, or is unreadable while a nodes table
\* exists: an open that wiped and succeeded leaves no node row, no edge row,
\* no node or edge in the graph and no file in diffs/; every other open
\* keeps each node row, each edge row and each patch file it found.
WipeCase ==
    /\ db_exists
    /\ \/ data_revision # NoRevision /\ data_revision < DATA_REVISION
       \/ data_revision = NoRevision /\ nodes_table
OpenWipesOrKeeps ==
    last'.op = "open" =>
        IF WipeCase
        THEN last'.res = "ok" =>
                /\ nodes' = {} /\ edges' = {} /\ diffs' = EmptyMap
                /\ OccupiedSlots' = {} /\ gedges' = <<>>
        ELSE /\ nodes \subseteq nodes' /\ edges \subseteq edges'
             /\ \A f \in DOMAIN diffs : f \in DOMAIN diffs' /\ diffs'[f] = diffs[f]
C14_RevisionWhileOpen ==
    running => (db_exists /\ data_revision = DATA_REVISION)

\* C14 witness: the engine is open on rows it kept from a database whose
\* stored revision it has just replaced.
C14_Witness ==
    /\ running /\ last.op = "open" /\ last.res = "ok" /\ last.n1 = 0
    /\ nodes = DiskRows /\ data_revision = DATA_REVISION /\ ops = 0

\* C15: after any sequence of public mutations, an open of the closed engine
\* yields a graph whose nodes are the node rows and whose directed edges are
\* the edge rows, one graph edge for each edge row.
C15_ReopenedGraphIsRepository ==
    (running /\ last.op = "open" /\ last.res = "ok") =>
        /\ GraphNodeHashes = RepoNodeHashes
        /\ Cardinality(OccupiedSlots) = Cardinality(nodes)
        /\ GraphEdgePairs = RepoEdgePairs
        /\ Len(gedges) = Cardinality(edges)
        /\ \A k \in DOMAIN gedges : \E e \in edges :
               /\ e.id = gedges[k].w.db_id
               /\ e.diff_path = gedges[k].w.diff_path
               /\ HashOfId(e.source_id) = gnodes[gedges[k].src].sha256
               /\ HashOfId(e.target_id) = gnodes[gedges[k].tgt].sha256

\* C15 witness: the engine has been reopened after mutations that left the
\* repository with an odd number of edge rows, and the graph has them all.
C15_Witness ==
    /\ running /\ last.op = "open" /\ last.res = "ok" /\ ops > 0
    /\ Cardinality(edges) = 3 /\ Len(gedges) = 3

\* the undirected connected component of h over the edge rows
RECURSIVE GrowRows(_)
GrowRows(S) ==
    LET T == S \cup {e.target_id : e \in {x \in edges : x.source_id \in S}}
               \cup {e.source_id : e \in {x \in edges : x.target_id \in S}}
    IN IF T = S THEN S ELSE GrowRows(T)
RepoComponent(h) == {HashOfId(id) : id \in GrowRows({RowOf(h).id})}

\* C16: an export of the component of h builds a manifest whose nodes are
\* exactly the nodes of the undirected connected component of h (of every
\* node when no hash is given) and whose edges are exactly the edge rows with
\* both ends exported; the counts it returns are the manifest's.
ExportSelects ==
    (last'.op = "export" /\ last'.res \in {"ok", "aborted"}) =>
        LET manifest == last'.out.manifest[1]
            expected == IF last'.ha = <<>> THEN RepoNodeHashes ELSE Component(last'.ha)
            rows_within == {e \in edges : /\ HashOfId(e.source_id) \in expected
                                          /\ HashOfId(e.target_id) \in expected}
        IN /\ last'.ha # <<>> => expected = RepoComponent(last'.ha)
           /\ {manifest.files[i].sha256 : i \in DOMAIN manifest.files}
                  = {format_hash(h) : h \in expected}
           /\ Len(manifest.files) = Cardinality(expected)
           /\ {<<manifest.diffs[i].source_sha256, manifest.diffs[i].target_sha256,
                 manifest.diffs[i].diff_path>> : i \in DOMAIN manifest.diffs}
                  = {<<format_hash(HashOfId(e.source_id)), format_hash(HashOfId(e.target_id)),
                       e.diff_path>> : e \in rows_within}
           /\ Len(manifest.diffs) = Cardinality(rows_within)
           /\ last'.n1 = Len(manifest.files)
           /\ last'.n2 = Len(manifest.diffs)
           /\ (last'.applied = <<>> \/ last'.applied[1].filename # <<>>
               \/ last'.applied[1].action = "Overwrite")
                  => output'.index = <<ToJson(manifest)>>
C16_ExportSelects == [][ExportSelects]_vars

\* C16 witness: the export of one node's component has put two of the three
\* stored nodes in the manifest, joined by an edge of one direction only.
C16_Witness ==
    /\ last.op = "export" /\ last.res = "ok" /\ last.ha # <<>>
    /\ last.n1 = 2 /\ last.n2 = 1 /\ Cardinality(nodes) = 3
    /\ \A k \in DOMAIN gedges : gnodes[gedges[k].src].sha256 # last.ha

\* C17: during an export on_conflict is asked only about destination files
\* (index.json, patch files) that exist already; on Skip the file keeps its
\* bytes and the export goes on, on Overwrite it gets the new bytes, on Abort
\* the export returns aborted at once and neither that file nor any later
\* destination file is written.  A destination file that did not exist is
\* written without a question.
ExportConflicts ==
    (last'.op = "export" /\ last'.res \in {"ok", "aborted"}) =>
        LET asked == last'.applied
            manifest == last'.out.manifest[1]
            diff_data == last'.out.diff_data
            dests == <<<<>>>> \o [i \in DOMAIN diff_data |-> <<diff_data[i].filename>>]
            Existed(f) == IF f = <<>> THEN output.index # <<>> ELSE f[1] \in DOMAIN output.diffs
            Kept(f) ==
                IF f = <<>> THEN output'.index = output.index
                ELSE /\ f[1] \in DOMAIN output'.diffs <=> f[1] \in DOMAIN output.diffs
                     /\ f[1] \in DOMAIN output.diffs => output'.diffs[f[1]] = output.diffs[f[1]]
            New(f) ==
                IF f = <<>> THEN output'.index = <<ToJson(manifest)>>
                ELSE f[1] \in DOMAIN output'.diffs /\ output'.diffs[f[1]] = diffs[f[1]]
            aborts == asked # <<>> /\ asked[Len(asked)].action = "Abort"
            aborted_at == IF aborts
                          THEN CHOOSE k \in DOMAIN dests : dests[k] = asked[Len(asked)].filename
                          ELSE Len(dests) + 1
        IN /\ \A i \in DOMAIN asked :
                  /\ Existed(asked[i].filename)
                  /\ \E k \in DOMAIN dests : dests[k] = asked[i].filename
                  /\ asked[i].action = "Abort" => i = Len(asked)
           /\ last'.res = "aborted" <=> aborts
           /\ \A k \in DOMAIN dests :
                  IF k >= aborted_at THEN Kept(dests[k])
                  ELSE IF \E i \in DOMAIN asked : asked[i].filename = dests[k]
                  THEN LET i == CHOOSE j \in DOMAIN asked : asked[j].filename = dests[k]
                       IN /\ asked[i].action = "Skip" => Kept(dests[k])
                          /\ asked[i].action = "Overwrite" => New(dests[k])
                  ELSE ~Existed(dests[k]) /\ New(dests[k])
           /\ \A name \in DOMAIN output.diffs \cup DOMAIN output'.diffs :
                  (\A k \in DOMAIN dests : dests[k] # <<name>>) => Kept(<<name>>)
C17_ExportConflicts == [][ExportConflicts]_vars

\* C17 witness: an export into a used folder has overwritten index.json,
\* skipped the first patch file and aborted at the second, which still has
\* the bytes it had.
C17_Witness ==
    /\ last.op = "export" /\ last.res = "aborted" /\ Len(last.applied) = 3
    /\ last.applied[1].action = "Overwrite" /\ last.applied[2].action = "Skip"
    /\ last.applied[3].action = "Abort"
    /\ output.index = <<ToJson(last.out.manifest[1])>>
    /\ output.diffs = UsedFolder.diffs

\* C18: a manifest whose data_revision is not DATA_REVISION is rejected with
\* an Import error by the analysis that every import starts with, and the
\* import then changes nothing: rows, graph, diffs directory, database file
\* and exchange folder are what they were.
ImportOfOtherRevision ==
    /\ last'.op \in {"analyze_import", "import"}
    /\ last'.applied[1].data_revision \notin {DATA_REVISION, NoRevision}

OtherRevisionRejected ==
    ImportOfOtherRevision =>
        /\ last'.res = "Import"
        /\ UNCHANGED <<store, database, output>>

C18_OtherRevisionRejected == [][OtherRevisionRejected]_vars

C18_Witness ==
    /\ last.op = "import"
    /\ last.res = "Import"
    /\ last.applied[1].data_revision = DATA_REVISION + 1
    /\ nodes # {}

\* C19: analyze_import changes nothing, and it returns one conflict for
\* exactly the manifest nodes whose hash has a local row and that differ
\* from it in one of the six fields, each conflict listing exactly the
\* differing fields.  Differing(row, node) says what "differ" means.
SixFields == {"title", "version", "source_url", "release_date", "description", "tags"}

LocalValue(row, field) == IF field = "tags" THEN TagsFromColumn(row.tags) ELSE row[field]

\* a field differs when its two values are not the same value
RawDiffering(row, node) == {f \in SixFields : LocalValue(row, f) # node[f]}

\* the value as it is compared: an absent optional field is the empty
\* string, the tags are one string, joined by ", "
Shown(field, value) ==
    IF field = "tags" THEN JoinTags(value) ELSE IF value = None THEN "" ELSE value

ShownDiffering(row, node) ==
    {f \in SixFields : Shown(f, LocalValue(row, f)) # Shown(f, node[f])}

RowOfNode(node) == CHOOSE r \in nodes : r.sha256 = parse_hash(node.sha256)

ConflictsMatch(conflicts, files, Differing(_, _)) ==
    LET expected == {i \in 1..Len(files) :
                        /\ HasRow(parse_hash(files[i].sha256))
                        /\ Differing(RowOfNode(files[i]), files[i]) # {}}
    IN /\ Len(conflicts) = Cardinality(expected)
       /\ \A i \in expected : \E k \in 1..Len(conflicts) :
             /\ conflicts[k].sha256 = files[i].sha256
             /\ conflicts[k].title = files[i].title
             /\ {conflicts[k].diffs[j].field : j \in 1..Len(conflicts[k].diffs)}
                    = Differing(RowOfNode(files[i]), files[i])
             /\ Len(conflicts[k].diffs) = Cardinality(Differing(RowOfNode(files[i]), files[i]))

AnalyzeReadOnly ==
    last'.op = "analyze_import" => UNCHANGED <<store, database, output>>

\* the claim as written: any two values that are not the same differ
C19_ConflictsForEveryDifference ==
    running => \A folder \in AnalyzeFolders :
        analyze_import(folder, nodes).ok =>
            ConflictsMatch(analyze_import(folder, nodes).conflicts,
                           folder.manifest.files, RawDiffering)

ConflictsForShownDifferences ==
    running => \A folder \in AnalyzeFolders :
        analyze_import(folder, nodes).ok =>
            ConflictsMatch(analyze_import(folder, nodes).conflicts,
                           folder.manifest.files, ShownDiffering)

\* C19 (amended): the same with the fields compared as they are shown: an
\* absent optional field equals an empty one, and two tag lists are equal
\* when their ", "-joined strings are.
C19_ConflictsForShownDifferences ==
    []ConflictsForShownDifferences /\ [][AnalyzeReadOnly]_vars

C19_Witness ==
    /\ last.op = "analyze_import"
    /\ last.res = "ok"
    /\ last.n1 = 1
    /\ last.applied[1].conflicts[1].diffs = <<FieldDiff("tags", "a, b", "hack")>>
    /\ \E r \in nodes : RowMetadata(r) = MetaJoined

\* C20: execute_import handles each manifest node by one case.  Hash absent
\* locally: one node row with the manifest's fields and one graph node are
\* inserted (nodes_added).  Present, overwrite: the six user fields of the
\* row become the manifest's, the rest of the row stays (nodes_overwritten).
\* Present, no overwrite: the row stays as it is (nodes_skipped) and the
\* manifest edges that touch it are inserted all the same.  The three
\* counters add up to the number of manifest nodes.
C20_ImportNodeCases ==
    \A folder \in Folders, overwrite \in BOOLEAN :
        LET st == execute_import(folder, overwrite, nodes, edges, TheGraph, diffs)
            files == folder.manifest.files
            HashAt(i) == parse_hash(files[i].sha256)
            present == {i \in DOMAIN files : HasRow(HashAt(i))}
            absent == DOMAIN files \ present
            After(h) == {r \in st.rows : r.sha256 = h}
        IN st.err = "" =>
            /\ st.nodes_added + st.nodes_skipped + st.nodes_overwritten = Len(files)
            /\ st.nodes_added = Cardinality(absent)
            /\ st.nodes_overwritten = IF overwrite THEN Cardinality(present) ELSE 0
            /\ st.nodes_skipped = IF overwrite THEN 0 ELSE Cardinality(present)
            /\ Cardinality(st.rows) = Cardinality(nodes) + Cardinality(absent)
            /\ \A i \in DOMAIN files :
                   /\ Cardinality(After(HashAt(i))) = 1
                   /\ LET r == CHOOSE x \in After(HashAt(i)) : TRUE
                          imported == /\ r.title = files[i].title
                                      /\ r.version = files[i].version
                                      /\ r.source_url = files[i].source_url
                                      /\ r.release_date = files[i].release_date
                                      /\ r.description = files[i].description
                                      /\ TagsFromColumn(r.tags) = files[i].tags
                      IN IF i \in absent
                         THEN /\ imported
                              /\ r \notin nodes
                              /\ HashAt(i) \notin GraphNodeHashes
                              /\ graph_get_node_by_hash(st.g, HashAt(i)) # 0
                         ELSE IF overwrite
                         THEN /\ imported
                              /\ r.id = RowOf(HashAt(i)).id
                              /\ r.filename = RowOf(HashAt(i)).filename
                              /\ r.source_file_header = RowOf(HashAt(i)).source_file_header
                         ELSE r = RowOf(HashAt(i))
            /\ \A k \in DOMAIN folder.manifest.diffs :
                   LET d == folder.manifest.diffs[k]
                       from == After(parse_hash(d.source_sha256))
                       to == After(parse_hash(d.target_sha256))
                   IN (from # {} /\ to # {}) =>
                          \E e \in st.erows :
                              /\ e.source_id = (CHOOSE x \in from : TRUE).id
                              /\ e.target_id = (CHOOSE x \in to : TRUE).id

\* C20 witness: an import without overwrite has added one node, skipped the
\* other, whose row still has the local title, and inserted both edges.
C20_Witness ==
    /\ last.op = "execute_import" /\ last.res = "ok"
    /\ last.n1 = 1 /\ last.out[1] = 1 /\ last.out[2] = 0 /\ last.n2 = 2
    /\ \E r \in nodes : RowMetadata(r) = MetaA
    /\ \E r \in nodes : RowMetadata(r) = MetaB
    /\ Cardinality(edges) = 2

\* the directed edges of a graph value, by hash
EdgePairsOf(g) ==
    {<<g.nodes[g.edges[k].src].sha256, g.nodes[g.edges[k].tgt].sha256>> : k \in DOMAIN g.edges}

\* C21: execute_import handles each manifest edge by one case.  Both ends
\* resolve to a node row (of this import or local) and the ordered pair has
\* no edge row: one edge row with the manifest's diff_path and diff_size and
\* one graph edge are inserted (edges_added).  The pair has an edge row
\* already: the row stays as it is (edges_skipped).  An end does not resolve:
\* nothing is inserted, nothing is counted, no error.  So edges_added +
\* edges_skipped is at most the number of manifest edges and every inserted
\* edge row names two node rows.
C21_ImportEdgeCases ==
    \A folder \in Folders, overwrite \in BOOLEAN :
        LET st == execute_import(folder, overwrite, nodes, edges, TheGraph, diffs)
            ds == folder.manifest.diffs
            After(h) == {r \in st.rows : r.sha256 = h}
            From(k) == After(parse_hash(ds[k].source_sha256))
            To(k) == After(parse_hash(ds[k].target_sha256))
            resolved == {k \in DOMAIN ds : From(k) # {} /\ To(k) # {}}
            Between(erows, k) ==
                {e \in erows : /\ e.source_id = (CHOOSE x \in From(k) : TRUE).id
                               /\ e.target_id = (CHOOSE x \in To(k) : TRUE).id}
            had == {k \in resolved : Between(edges, k) # {}}
        IN st.err = "" =>
            /\ st.edges_added = Cardinality(resolved \ had)
            /\ st.edges_skipped = Cardinality(had)
            /\ st.edges_added + st.edges_skipped <= Len(ds)
            /\ edges \subseteq st.erows
            /\ Cardinality(st.erows \ edges) = st.edges_added
            /\ \A k \in resolved \ had :
                   /\ Cardinality(Between(st.erows, k)) = 1
                   /\ \A e \in Between(st.erows, k) :
                          e.diff_path = ds[k].diff_path /\ e.diff_size = ds[k].diff_size
                   /\ <<parse_hash(ds[k].source_sha256), parse_hash(ds[k].target_sha256)>>
                          \in EdgePairsOf(st.g)
            /\ \A k \in had : Between(st.erows, k) = Between(edges, k)
            /\ \A e \in st.erows \ edges :
                   /\ \E r \in st.rows : r.id = e.source_id
                   /\ \E r \in st.rows : r.id = e.target_id

\* C21 witness: the import of a pair of which one edge was local has added
\* the other edge and skipped the first.
C21_Witness ==
    /\ last.op = "execute_import" /\ last.res = "ok"
    /\ last.n2 = 1 /\ last.out[3] = 1
    /\ Cardinality(edges) = 2

\* C22: execute_import, whether it returns Ok or Err, leaves every patch
\* file that was in the local diffs/ as it was; every file it wrote is the
\* copy of the exchange folder's file for a manifest edge whose checksum is
\* empty or is the SHA-256 of that file; a file whose checksum does not match
\* is not written and the call returns an Import error; diffs_copied is the
\* number of files written.
C22_ImportCopiesVerifiedFiles ==
    \A folder \in Folders \cup {FolderUnchecked(<<1>>, <<2, 2>>)}, overwrite \in BOOLEAN :
        LET st == execute_import(folder, overwrite, nodes, edges, TheGraph, diffs)
            ds == folder.manifest.diffs
            written == DOMAIN st.dir \ DOMAIN diffs
            Verified(k) == \/ ds[k].sha256 = <<>>
                           \/ ds[k].sha256 = PatchChecksum(folder.diffs[ds[k].diff_path])
            mismatched == {k \in DOMAIN ds : /\ ds[k].diff_path \notin DOMAIN diffs
                                              /\ ds[k].diff_path \in DOMAIN folder.diffs
                                              /\ ~Verified(k)}
        IN /\ \A name \in DOMAIN diffs : name \in DOMAIN st.dir /\ st.dir[name] = diffs[name]
           /\ \A name \in written :
                  /\ name \in DOMAIN folder.diffs
                  /\ st.dir[name] = folder.diffs[name]
                  /\ \E k \in DOMAIN ds : ds[k].diff_path = name /\ Verified(k)
           /\ st.diffs_copied = Cardinality(written)
           /\ \A k \in mismatched : ds[k].diff_path \notin DOMAIN st.dir /\ st.err # ""
           /\ (mismatched # {} /\ ImportEdges(ds, ImportNodes(folder.manifest.files, overwrite,
                    ImportStart(nodes, edges, TheGraph, diffs))).err = "") => st.err = "Import"

\* C22 witness: an import has copied the patch file whose checksum matched
\* and stopped with an Import error at the one whose checksum did not.
C22_Witness ==
    /\ last.op = "execute_import" /\ last.res = "Import"
    /\ DOMAIN diffs = {DiffFilename(hash_bytes(<<1>>), hash_bytes(<<2, 2>>))}
    /\ Cardinality(edges) = 2

\* the exchange folder as the import reads it
AsImportFolder(out) ==
    [index |-> out.index, manifest |-> FromJson(out.index[1]), diffs |-> out.diffs]

\* the import of an exchange folder into an engine that was just created
ImportIntoFresh(out) ==
    execute_import([manifest |-> analyze_import(AsImportFolder(out), {}).manifest[1],
                    diffs |-> out.diffs],
                   FALSE, {}, {}, EmptyGraph, EmptyMap)

\* C23: in every state the engine can reach, for every node h, with S the connected
\* component of h and E the edge rows between nodes of S: the export of the
\* component of h into an empty folder succeeds, the analysis of that folder
\* by a fresh engine succeeds without conflicts, and the import adds exactly
\* the nodes of S and the edges of E (nodes_added = |S|, edges_added =
\* diffs_copied = |E|), with the same directed edges in rows and graph and
\* with every patch file of E byte for byte what it is in the source engine.
C23_ExportImportRoundTrip ==
    running => \A h \in GraphNodeHashes :
        LET w == write_folder(EmptyFolder, TheGraph, nodes, edges, diffs, <<h>>, <<"Abort">>)
            S == Component(h)
            E == {e \in edges : HashOfId(e.source_id) \in S /\ HashOfId(e.target_id) \in S}
            pairs == {<<HashOfId(e.source_id), HashOfId(e.target_id)>> : e \in E}
        IN /\ w.ok /\ ~w.aborted
           /\ analyze_import(AsImportFolder(w.out), {}).ok
           /\ analyze_import(AsImportFolder(w.out), {}).conflicts = <<>>
           /\ LET st == ImportIntoFresh(w.out)
                   HashIn(id) == (CHOOSE r \in st.rows : r.id = id).sha256
              IN /\ st.err = ""
                 /\ st.nodes_added = Cardinality(S)
                 /\ st.edges_added = Cardinality(E)
                 /\ st.diffs_copied = Cardinality(E)
                 /\ {r.sha256 : r \in st.rows} = S
                 /\ Cardinality(st.rows) = Cardinality(S)
                 /\ {<<HashIn(e.source_id), HashIn(e.target_id)>> : e \in st.erows} = pairs
                 /\ Cardinality(st.erows) = Cardinality(E)
                 /\ EdgePairsOf(st.g) = pairs
                 /\ {st.g.nodes[i].sha256 :
                        i \in graph_connected_component(st.g, graph_get_node_by_hash(st.g, h))} = S
                 /\ \A e \in E : /\ e.diff_path \in DOMAIN diffs
                                  /\ e.diff_path \in DOMAIN st.dir
                                  /\ st.dir[e.diff_path] = diffs[e.diff_path]
                 /\ DOMAIN st.dir = {e.diff_path : e \in E}

\* C24: update_node_metadata(h, m) on a hash that has a node row replaces
\* the six user fields of that row by m and leaves its id, sha256, filename
\* and header, every other row, every edge row, every patch file, the graph's
\* edges, every other graph node and the hash, db id and filename of h's
\* graph node as they were; on a hash without a node row it returns
\* RomNotFound and changes nothing.
UpdateFrame ==
    last'.op = "update_node_metadata" =>
        LET h == last'.ha
        IN IF HasRow(h)
           THEN /\ last'.res = "ok"
                /\ \E r \in nodes' :
                      /\ r.sha256 = h
                      /\ RowMetadata(r) = last'.out[1]
                      /\ r.id = RowOf(h).id
                      /\ r.filename = RowOf(h).filename
                      /\ r.source_file_header = RowOf(h).source_file_header
                      /\ nodes' \ {r} = nodes \ {RowOf(h)}
                /\ Cardinality(nodes') = Cardinality(nodes)
                /\ UNCHANGED <<edges, diffs, gedges, gfree, hash_to_node, db_id_to_node>>
                /\ Len(gnodes') = Len(gnodes)
                /\ \A i \in 1..Len(gnodes) :
                      IF gnodes[i] # Vacant /\ gnodes[i].sha256 = h
                      THEN /\ gnodes'[i].sha256 = h
                           /\ gnodes'[i].db_id = gnodes[i].db_id
                           /\ gnodes'[i].filename = gnodes[i].filename
                      ELSE gnodes'[i] = gnodes[i]
           ELSE /\ last'.res = "RomNotFound"
                /\ UNCHANGED <<store, database, output>>

C24_UpdateFrame == [][UpdateFrame]_vars

\* C24 witness: update_node_metadata has replaced the metadata of one of two
\* nodes, and the other node still has the metadata it was added with.
C24_Witness ==
    /\ last.op = "update_node_metadata" /\ last.res = "ok"
    /\ last.out = <<MetaB>>
    /\ RowMetadata(RowOf(last.ha)) = MetaB
    /\ \E r \in nodes : r.sha256 # last.ha /\ RowMetadata(r) = MetaA

\* C25: for graph nodes src and tgt, find_path returns nothing when no
\* directed path of graph edges leads from src to tgt; otherwise a list whose
\* first step is src without an edge and whose last step is tgt, in which
\* every later step carries a graph edge from the node of the step before to
\* its own node, and which has as many edges as a shortest directed path;
\* for src = tgt that is the single step.
C25_FindPathIsShortest ==
    \A s \in OccupiedSlots, t \in OccupiedSlots :
        LET path == graph_find_path(TheGraph, s, t)
            dist == Distance({s}, {s}, t, 0)
        IN IF dist = -1 THEN path = <<>>
           ELSE /\ Len(path) = dist + 1
                /\ path[1] = [node_idx |-> s, edge |-> <<>>]
                /\ path[Len(path)].node_idx = t
                /\ (s = t => Len(path) = 1)
                /\ \A i \in 2..Len(path) :
                       /\ path[i].edge # <<>>
                       /\ \E k \in DOMAIN gedges :
                              /\ gedges[k].src = path[i - 1].node_idx
                              /\ gedges[k].tgt = path[i].node_idx
                              /\ gedges[k].w = path[i].edge[1]

\* C25 witness: a build has followed a path of two edges, and no path leads
\* back from its target to its source.
C25_Witness ==
    /\ last.op = "build_rom" /\ last.res = "ok" /\ last.n1 = 2
    /\ Len(find_path(TheGraph, last.ha, last.hb)) = 3
    /\ find_path(TheGraph, last.hb, last.ha) = <<>>

\* C26: for every graph node start, connected_component(start) is the set
\* of nodes that can be reached from start over graph edges taken in either
\* direction; start is in it, and the component of each of its nodes is the
\* same set.
C26_ComponentIsUndirectedClosure ==
    \A start \in OccupiedSlots :
        /\ graph_connected_component(TheGraph, start) = Grow({start})
        /\ start \in graph_connected_component(TheGraph, start)
        /\ \A b \in graph_connected_component(TheGraph, start) :
               /\ b \in OccupiedSlots
               /\ graph_connected_component(TheGraph, b)
                      = graph_connected_component(TheGraph, start)

\* C26 witness: the component of two of the three nodes has been exported;
\* its nodes are joined by one edge, the third node is a component of its own.
C26_Witness ==
    /\ last.op = "export" /\ last.res = "ok" /\ last.ha # <<>>
    /\ last.n1 = 2 /\ last.n2 = 1
    /\ Cardinality(OccupiedSlots) = 3
    /\ \E third \in OccupiedSlots : graph_connected_component(TheGraph, third) = {third}
    /\ \A k \in DOMAIN gedges : gnodes[gedges[k].tgt].sha256 # last.ha

\* C27: the header that parse_nes_header_bytes reads from the bytes that
\* build_nes_header made of a parsed header h is h with has_trainer false:
\* PRG and CHR sizes, mapper, mirroring, battery flag, NES 2.0 flag and
\* submapper are those of h.
C27_HeaderRoundTrip ==
    (last.op = "parse_nes_header_bytes" /\ last.n1 = 2) =>
        /\ last.applied # <<>>
        /\ last.out = <<[last.applied[1] EXCEPT !.has_trainer = FALSE]>>

\* C27 witness: a NES 2.0 header with trainer, battery, four-screen
\* mirroring, a mapper above 255 and a submapper has been parsed, built and
\* parsed again.
C27_Witness ==
    /\ last.op = "parse_nes_header_bytes" /\ last.n1 = 2
    /\ last.applied[1].has_trainer /\ last.applied[1].has_battery
    /\ last.applied[1].is_nes2 /\ last.applied[1].mapper > 255
    /\ last.applied[1].submapper # <<>>
    /\ last.applied[1].mirroring = "FourScreen"
    /\ last.applied[1].prg_rom_size = 255 * 16 * 1024
    /\ last.out # <<>> /\ ~last.out[1].has_trainer

\* C29: add_node of a file whose extension is not "nes" in any spelling of
\* upper and lower case returns UnsupportedRomType, add_node of a file with
\* such an extension whose first bytes are not the NES magic returns
\* InvalidNesFile, and neither call changes a node row, the graph or anything
\* else of the store; a file with the extension in upper case and the magic
\* is not rejected with either error.
NesSpellings == {"nes", "NES", "Nes", "nEs", "neS", "NEs", "nES", "NeS"}

AddRejectsOtherFiles ==
    \A f \in RomFiles :
        AddNode(f, MetaOf(f)) =>
            /\ f.ext \notin NesSpellings =>
                   /\ last'.res = "UnsupportedRomType"
                   /\ UNCHANGED <<store, database, output>>
            /\ (f.ext \in NesSpellings /\ f.data[1] # NesMagic) =>
                   /\ last'.res = "InvalidNesFile"
                   /\ UNCHANGED <<store, database, output>>
            /\ (f.ext \in NesSpellings /\ f.data[1] = NesMagic) =>
                   last'.res \notin {"UnsupportedRomType", "InvalidNesFile"}

C30_OneEdgeRowPerPair ==
    /\ \A e1 \in edges, e2 \in edges :
          (e1.source_id = e2.source_id /\ e1.target_id = e2.target_id) => e1 = e2
    /\ \A e \in edges, name \in DiffNames :
          /\ ~insert_edge(edges, e.source_id, e.target_id, name, e.diff_size + 1).ok
          /\ insert_edge(edges, e.source_id, e.target_id, name, e.diff_size + 1).err
                 = "DiffAlreadyExists"
          /\ insert_edge(edges, e.source_id, e.target_id, name, e.diff_size + 1).rows = edges

\* C30 witness: an import has found both of its edges in the repository and
\* skipped them; the two rows are there once.
C30_Witness ==
    /\ last.op = "execute_import" /\ last.res = "ok"
    /\ last.n2 = 0 /\ last.out[3] = 2
    /\ Cardinality(edges) = 2

\* C31: when execute_import returns an error, the repository, the graph and
\* diffs/ are as they were before the call
ImportErrorLeavesStore ==
    last'.op = "execute_import" /\ last'.res # "ok" => store' = store

C31_ImportErrorLeavesStore == [][ImportErrorLeavesStore]_vars

\* C32: within one link_nodes call the patch files are written first, then
\* the edge rows inserted, then the graph edges added; at every point of the
\* call, and after the process ended at any point, every edge row has its
\* patch file, so that what can be left over is a patch file without row
EdgeRowsHaveFiles == \A e \in edges : e.diff_path \in DOMAIN diffs

LinkEffectsInOrder ==
    last'.op = "link_nodes" =>
        /\ diffs' # diffs => edges' = edges /\ gedges' = gedges
        /\ edges' # edges =>
               /\ diffs' = diffs /\ gedges' = gedges
               /\ \A e \in edges' \ edges : e.diff_path \in DOMAIN diffs
        /\ gedges' # gedges =>
               /\ diffs' = diffs /\ edges' = edges
               /\ \A i \in 1..Len(gedges') :
                      i > Len(gedges) =>
                          \E e \in edges : e.diff_path = gedges'[i].w.diff_path

C33_GraphCachesTitleAndVersion ==
    \A i \in OccupiedSlots :
        /\ HasRow(gnodes[i].sha256)
        /\ \A r \in nodes :
               r.sha256 = gnodes[i].sha256 =>
                   gnodes[i].title = r.title /\ gnodes[i].version = r.version

C33_Witness ==
    /\ last.op \in {"update_node_metadata", "execute_import"}
    /\ last.res = "ok"
    /\ \E i \in OccupiedSlots, j \in OccupiedSlots :
           /\ gnodes[i].title = MetaB.title /\ gnodes[i].version = MetaB.version
           /\ RowOf(gnodes[i].sha256).source_url = MetaB.source_url
           /\ gnodes[j].title = MetaA.title /\ gnodes[j].version = MetaA.version

\* the prefixes asked for: the empty one, every prefix of a hash in lower
\* and in upper case, and one that no hash starts with
HexToLower(text) == [i \in 1..Len(text) |-> IF text[i] \in 26..31 THEN text[i] - 16 ELSE text[i]]
HexToUpper(text) == [i \in 1..Len(text) |-> IF text[i] \in 10..15 THEN text[i] + 16 ELSE text[i]]
AskedPrefixes ==
    LET lower == {SubSeq(format_hash(h), 1, n) : h \in Hashes, n \in 0..HashLen}
    IN lower \cup {HexToUpper(p) : p \in lower} \cup {<<0, 0>>}

\* C34: find_node_by_hash_prefix(p) returns, among the nodes whose hex hash
\* starts with the lowercased p, the one inserted earliest, also after earlier
\* nodes were removed and further nodes added, and none when no hash matches
C34_PrefixFindsEarliestInserted ==
    \A p \in AskedPrefixes :
        LET idx == find_node_by_hash_prefix(TheGraph, p)
            matching == {i \in OccupiedSlots :
                            SubSeq(format_hash(gnodes[i].sha256), 1, Len(p)) = HexToLower(p)}
        IN IF matching = {} THEN idx = 0
           ELSE /\ idx \in matching
                /\ \A j \in matching : gnodes[idx].db_id <= gnodes[j].db_id

\* the shortest directed walks from s to t as node sequences, the place of
\* the edge u -> v in the order of insertion, and the first place where two
\* walks part
ShortestWalks(s, t) ==
    LET d == Distance({s}, {s}, t, 0)
    IN IF d = -1 THEN {}
       ELSE {p \in [1..(d + 1) -> DOMAIN gnodes] :
                /\ p[1] = s /\ p[d + 1] = t
                /\ \A i \in 1..d : \E k \in DOMAIN gedges :
                       gedges[k].src = p[i] /\ gedges[k].tgt = p[i + 1]}
EdgePos(u, v) == CHOOSE k \in DOMAIN gedges : gedges[k].src = u /\ gedges[k].tgt = v
PartAt(p, q) == CHOOSE i \in DOMAIN p : p[i] # q[i] /\ \A j \in 1..(i - 1) : p[j] = q[j]
ReturnedWalk == [i \in DOMAIN last.out |-> last.out[i].node_idx]

\* C35: among several shortest directed paths find_path returns the one
\* reached through the earliest-inserted edges: where it parts from another
\* shortest path, its edge was inserted before the other's
C35_TieGoesToEarliestEdge ==
    (last.op = "find_path" /\ last.res = "ok") =>
        \A q \in ShortestWalks(last.ha, last.hb) :
            q # ReturnedWalk =>
                EdgePos(ReturnedWalk[PartAt(ReturnedWalk, q) - 1],
                        ReturnedWalk[PartAt(ReturnedWalk, q)])
                    < EdgePos(q[PartAt(ReturnedWalk, q) - 1], q[PartAt(ReturnedWalk, q)])

\* C35 as the code has it: find_path returns a shortest path, and where it
\* parts from another shortest path its edge is the one inserted later
C35_TieGoesToLatestEdge ==
    (last.op = "find_path" /\ last.res = "ok") =>
        /\ ReturnedWalk \in ShortestWalks(last.ha, last.hb)
        /\ \A q \in ShortestWalks(last.ha, last.hb) :
               q # ReturnedWalk =>
                   EdgePos(ReturnedWalk[PartAt(ReturnedWalk, q) - 1],
                           ReturnedWalk[PartAt(ReturnedWalk, q)])
                       > EdgePos(q[PartAt(ReturnedWalk, q) - 1], q[PartAt(ReturnedWalk, q)])

C35_Witness ==
    /\ last.op = "find_path" /\ last.res = "ok"
    /\ Cardinality(ShortestWalks(last.ha, last.hb)) = 2
    /\ Len(last.out) = 3

\* C36: remove_node with a hash that is not a node, and link_nodes with a
\* file whose body hash is not a node, return RomNotFound, leave the
\* repository, the graph and diffs/ unchanged and do not abort the process
UnknownNodeIsAnError ==
    /\ \A h \in Hashes :
           (~HasRow(h) /\ RemoveNode(h, {})) =>
               last'.res = "RomNotFound" /\ running' /\ store' = store
    /\ \A fa \in ValidFiles, fb \in ValidFiles :
           (/\ ~HasRow(hash_rom_file(fa).sha256) \/ ~HasRow(hash_rom_file(fb).sha256)
            /\ LinkNodes(fa, fb)) =>
               last'.res = "RomNotFound" /\ running' /\ store' = store

C36_UnknownNodeIsAnError == [][UnknownNodeIsAnError]_vars

\* valid .nes files of every body: each value of the low flag bits, with a
\* trainer of either content behind the header when the trainer flag is set
NesFilesOf(b) ==
    {[name |-> "f", ext |-> e, data |-> <<NesMagic, flags>> \o trainer \o b] :
        e \in {"nes", "NES"}, flags \in {0, 1, 2, 3},
        trainer \in {<<>>}} \cup
    {[name |-> "f", ext |-> e, data |-> <<NesMagic, flags>> \o trainer \o b] :
        e \in {"nes", "NES"}, flags \in {4, 5, 6, 7},
        trainer \in {<<8>>, <<9>>}}

\* C37: for every valid .nes file the hash hash_rom_file reports is the hash
\* of exactly the bytes read_rom_bytes returns, everything after the header
\* and the trainer; files that differ in header or trainer alone get the same
\* hash; and the patch files link_nodes writes are diffs of the bodies whose
\* hashes name its two nodes
HashIsOfBodyRead ==
    \A b \in Bodies :
        /\ \A f \in NesFilesOf(b) \cup {g \in ValidFiles : read_rom_bytes(g).bytes = b} :
               /\ hash_rom_file(f).ok /\ read_rom_bytes(f).ok
               /\ read_rom_bytes(f).bytes = b
               /\ hash_rom_file(f).sha256 = hash_bytes(read_rom_bytes(f).bytes)
        /\ \A f \in NesFilesOf(b), g \in NesFilesOf(b) :
               hash_rom_file(f).sha256 = hash_rom_file(g).sha256

LinkDiffsHashedBodies ==
    (last.op = "link_nodes" /\ last.res = "ok") =>
        /\ hash_bytes(diffs[DiffFilename(last.ha, last.hb)].old) = last.ha
        /\ hash_bytes(diffs[DiffFilename(last.ha, last.hb)].new) = last.hb
        /\ hash_bytes(diffs[DiffFilename(last.hb, last.ha)].old) = last.hb
        /\ hash_bytes(diffs[DiffFilename(last.hb, last.ha)].new) = last.ha

C37_HashIsOfBodyRead == HashIsOfBodyRead /\ LinkDiffsHashedBodies

\* C37 witness: the file with the trainer has been linked as the node of
\* body <<1>>, whose hash the plain file of that body has as well
C37_Witness ==
    /\ last.op = "link_nodes" /\ last.res = "ok"
    /\ last.ha = hash_rom_file(TrainerFile(<<1>>)).sha256
    /\ last.ha = hash_rom_file(PlainFile(<<1>>)).sha256
    /\ TrainerFile(<<1>>).data # PlainFile(<<1>>).data
    /\ diffs[DiffFilename(last.ha, last.hb)].old = <<1>>

\* C38: reached from an empty store by add_node, link_nodes and remove_node
\* alone, the edge set is symmetric in the repository and in the graph, and
\* find_path from A to B succeeds exactly when find_path from B to A does
C38_EdgesSymmetric ==
    /\ \A e \in edges :
           \E back \in edges : back.source_id = e.target_id /\ back.target_id = e.source_id
    /\ \A k \in DOMAIN gedges :
           \E j \in DOMAIN gedges : gedges[j].src = gedges[k].tgt /\ gedges[j].tgt = gedges[k].src
    /\ \A a \in OccupiedSlots, b \in OccupiedSlots :
           (graph_find_path(TheGraph, a, b) # <<>>) <=> (graph_find_path(TheGraph, b, a) # <<>>)

\* C38 witness: after a removal two linked nodes and a node without links
\* are stored, or two linked nodes next to the vacated slot
C38_Witness ==
    /\ last.op = "remove_node" /\ last.res = "ok"
    /\ Cardinality(edges) = 2 /\ Len(gedges) = 2
    /\ \E a \in OccupiedSlots, b \in OccupiedSlots :
           /\ a # b
           /\ Len(graph_find_path(TheGraph, a, b)) = 2
           /\ Len(graph_find_path(TheGraph, b, a)) = 2

\* execute_import of a folder from the present state, and once more with
\* overwrite = false from the state the first call left
ImportTwice(folder, overwrite) ==
    LET first == execute_import(folder, overwrite, nodes, edges, TheGraph, diffs)
    IN [first |-> first,
        second |-> execute_import(folder, FALSE, first.rows, first.erows, first.g, first.dir)]

\* C39: executing the same import folder a second time with overwrite =
\* false, nothing in between, reports nodes_added = 0, edges_added = 0 and
\* diffs_copied = 0 and leaves the repository, the graph and diffs/ unchanged
C39_SecondImportAddsNothing ==
    \A folder \in Folders, overwrite \in BOOLEAN :
        \E r \in {ImportTwice(folder, overwrite)} :
            /\ r.second.rows = r.first.rows
            /\ r.second.erows = r.first.erows
            /\ r.second.g = r.first.g
            /\ r.second.dir = r.first.dir
            /\ r.second.err = r.first.err
            /\ r.second.nodes_added = 0
            /\ r.second.edges_added = 0
            /\ r.second.diffs_copied = 0
            /\ r.second.err = "" =>
                   /\ r.second.nodes_skipped = Len(folder.manifest.files)
                   /\ r.second.nodes_overwritten = 0

\* C39 witness: the one call that changed the store was an import of two
\* nodes and two edges, and the last call was an import that skipped them all
C39_Witness ==
    /\ last.op = "execute_import" /\ last.res = "ok"
    /\ last.n1 = 0 /\ last.n2 = 0
    /\ last.out = <<2, 0, 2, 0>>
    /\ ops = 1
    /\ Cardinality(nodes) = 2 /\ Cardinality(edges) = 2

====
